---- MODULE Spec2Model ----
(***************************************************************************)
(* A model of the storage/merge subsystem of sensor_server: the write      *)
(* buffer (SensorReadingQueue), the hot cache and orchestration of         *)
(* DataStore, and the week-sharded archive of ParquetManager over a        *)
(* DictBackend.                                                            *)
(*                                                                         *)
(* Timestamps are proleptic Gregorian day ordinals (datetime.toordinal);   *)
(* a dataframe is the sequence of its rows in row order.                   *)
(***************************************************************************)
EXTENDS Integers, Sequences, FiniteSets, TLC

VARIABLES
    queue,          \* SensorReadingQueue._queue, oldest first
    counter,        \* SensorReadingQueue._counter
    dataframe,      \* DataStore._dataframe (the hot cache)
    reload,         \* DataStore._reload_dataframe
    archive,        \* DictBackend.archive: archive name -> dataframe
    added,          \* history: every reading passed to add_reading, in order
    sinceFlush,     \* history: readings added since the last callback or reset_counter
    fired,          \* history: number of on-full callback invocations
    lastBatch,      \* history: the batch handed to the latest callback invocation
    expectBatch,    \* history: sinceFlush at the latest callback invocation
    everReset,      \* history: reset_counter has been called
    otherOps,       \* history: operations other than add_reading so far (0, 1, many)
    flushedAt,      \* history: Len(added) when archive_data last returned
    lastArg,        \* the start timestamp of the last query
    lastEnd,        \* the end timestamp of the last query
    lastTable,      \* the dataframe passed to the last save_dataframe
    peer,           \* how the fetch from the peer went in the last operation
    threads,        \* the position and locals of the request and timer threads
    lastOp,         \* the operation that ran last
    result,         \* the dataframe the last read returned
    raised          \* the exception the last operation ended with, or "none"

vars == <<queue, counter, dataframe, reload, archive, added, sinceFlush, fired,
          lastBatch, expectBatch, everReset, otherOps, flushedAt, lastArg,
          lastEnd, lastTable, peer, threads, lastOp, result, raised>>

storeVars == <<dataframe, reload, archive, otherOps, flushedAt, lastArg,
               lastEnd, lastTable, peer, threads>>
callbackVars == <<fired, lastBatch, expectBatch>>

(***************************************************************************)
(* Bounds of the model.                                                    *)
(***************************************************************************)
\* capacity of the write buffer (maxlen; 10000 by default, 10 in the tests)
MaxLen == 3
\* number of add_reading calls in a behaviour of the data store
MaxAdds == 4
\* number of add_reading calls in a behaviour of the write buffer on its own
MaxQueueAdds == 6
\* rows the hot cache may hold when a read of it starts
MaxRows == 4
\* the years the week arithmetic is checked for: the 400 years of one cycle
\* of the Gregorian calendar, all of them years a pd.Timestamp can hold
FirstYear == 1862
LastYear == 2261

\* the number of nested invocations of _load_recursively that are followed
MaxDepth == 12

(***************************************************************************)
(* Calendar arithmetic used through pd.Timestamp.                          *)
(***************************************************************************)
IsLeap(year) == (year % 4 = 0 /\ year % 100 # 0) \/ year % 400 = 0

DaysBeforeYear(year) ==
    LET y == year - 1 IN y * 365 + (y \div 4) - (y \div 100) + (y \div 400)

DaysBeforeMonth(year, month) ==
    <<0, 31, 59, 90, 120, 151, 181, 212, 243, 273, 304, 334>>[month]
        + (IF month > 2 /\ IsLeap(year) THEN 1 ELSE 0)

\* pd.Timestamp(year, month, day) as a day ordinal
Timestamp(year, month, day) ==
    DaysBeforeYear(year) + DaysBeforeMonth(year, month) + day

\* Timestamp.weekday(): Monday is 0
weekday(ts) == (ts + 6) % 7

\* the Monday of ISO week 1 of a calendar year, as datetime computes it
IsoWeek1Monday(year) ==
    LET firstday == Timestamp(year, 1, 1)
        firstweekday == weekday(firstday)
        week1monday == firstday - firstweekday
    IN  IF firstweekday > 3 THEN week1monday + 7 ELSE week1monday

\* the calendar year of a day ordinal
YearOf(ts) ==
    CHOOSE y \in ((ts \div 366) - 1)..((ts \div 365) + 1) :
        Timestamp(y, 1, 1) <= ts /\ ts < Timestamp(y + 1, 1, 1)

\* Timestamp.isocalendar(): <<ISO year, ISO week>>
isocalendar(ts) ==
    LET year == YearOf(ts)
        week == (ts - IsoWeek1Monday(year)) \div 7
    IN  IF week < 0
        THEN <<year - 1, ((ts - IsoWeek1Monday(year - 1)) \div 7) + 1>>
        ELSE IF week >= 52 /\ ts >= IsoWeek1Monday(year + 1)
             THEN <<year + 1, 1>>
             ELSE <<year, week + 1>>

(***************************************************************************)
(* Readings.                                                               *)
(***************************************************************************)
SENSOR_COMBINATIONS ==
    { <<"temperature", "DHT11">>, <<"temperature", "DS18B20">>,
      <<"temperature", "PI_CPU">>, <<"humidity", "DHT11">> }

SensorTypeValues == <<"temperature", "humidity">>
SensorValues == <<"DHT11", "PI_CPU", "DS18B20">>
UnitValues == <<"C", "%">>

gen_unit(sensor_type) == IF sensor_type = "temperature" THEN "C" ELSE "%"

SensorReading(sensor_type, sensor, timestamp) ==
    [sensor_type |-> sensor_type, sensor |-> sensor, timestamp |-> timestamp,
     reading |-> 20, unit |-> gen_unit(sensor_type)]

\* the wall clock: Wednesday 2024-01-10, in ISO week 2024-W02
Today == Timestamp(2024, 1, 10)

\* timestamps of the readings fed to the store: 2023-W52, the Monday that
\* starts 2024-W01, the Monday that starts 2024-W02, and a day inside it
Timestamps ==
    { Timestamp(2023, 12, 27), Timestamp(2024, 1, 1),
      Timestamp(2024, 1, 8), Timestamp(2024, 1, 9) }

\* the readings fed to the store: one sensor at every timestamp, and a second
\* sensor that shares one of them
Readings ==
    { SensorReading("temperature", "DHT11", t) : t \in Timestamps }
        \cup { SensorReading("humidity", "DHT11", Timestamp(2024, 1, 8)) }

\* the ingest precondition of the write buffer: timestamps never decrease
NonDecreasing(history, reading) ==
    IF history = <<>> THEN TRUE
    ELSE history[Len(history)].timestamp <= reading.timestamp

Range(s) == { s[i] : i \in DOMAIN s }

\* the last n entries of a sequence
LastN(s, n) == SubSeq(s, Len(s) - n + 1, Len(s))

Min(a, b) == IF a < b THEN a ELSE b

\* itertools.islice(seq, start, stop) for 0 <= start, 0 <= stop
islice(seq, start, stop) ==
    LET hi == IF stop < Len(seq) THEN stop ELSE Len(seq)
    IN  IF start >= hi THEN <<>> ELSE SubSeq(seq, start + 1, hi)

(***************************************************************************)
(* Dataframes: SensorData of sensor.py, the one datastore.py imports and   *)
(* whose repair_dataframe accepts the indexed frames parquetmanager.py     *)
(* passes to it.                                                           *)
(***************************************************************************)
\* no timestamp: the ordinal below datetime.min
None == Timestamp(1, 1, 1) - 1

\* the code of a value in a categorical dtype
CategoryCode(categories, value) ==
    CHOOSE i \in DOMAIN categories : categories[i] = value

\* the index key of a row
KeyOf(row) == <<row.sensor_type, row.sensor, row.timestamp>>

\* the lexicographic order of the MultiIndex (sensor_type, sensor, timestamp)
IndexLess(a, b) ==
    LET ta == CategoryCode(SensorTypeValues, a.sensor_type)
        tb == CategoryCode(SensorTypeValues, b.sensor_type)
        sa == CategoryCode(SensorValues, a.sensor)
        sb == CategoryCode(SensorValues, b.sensor)
    IN  \/ ta < tb
        \/ ta = tb /\ sa < sb
        \/ ta = tb /\ sa = sb /\ a.timestamp < b.timestamp

RECURSIVE InsertRow(_, _)
\* a row put after the rows of a sorted frame that do not come after it
InsertRow(df, row) ==
    IF df = <<>> THEN <<row>>
    ELSE IF IndexLess(row, Head(df)) THEN <<row>> \o df
         ELSE <<Head(df)>> \o InsertRow(Tail(df), row)

RECURSIVE sort_index(_)
\* DataFrame.sort_index(): a stable sort on the MultiIndex
sort_index(df) ==
    IF df = <<>> THEN <<>>
    ELSE InsertRow(sort_index(SubSeq(df, 1, Len(df) - 1)), df[Len(df)])

RECURSIVE drop_duplicates(_)
\* DataFrame.drop_duplicates(["sensor_type", "sensor", "timestamp"]): keeps the
\* first row of each key
drop_duplicates(df) ==
    IF df = <<>> THEN <<>>
    ELSE LET front == drop_duplicates(SubSeq(df, 1, Len(df) - 1))
             last == df[Len(df)]
         IN  IF \E i \in DOMAIN front : KeyOf(front[i]) = KeyOf(last)
             THEN front
             ELSE Append(front, last)

\* repair_dataframe without its drop_duplicates step
repair_dataframe_keep_duplicates(df) == df

\* SensorData.repair_dataframe: reset the index, drop duplicate keys, retype
\* the columns and set the index again
repair_dataframe(df) == drop_duplicates(df)

\* a timestamp string that is not a date in the format "%Y-%m-%d %H:%M:%S.%f":
\* it stands for no day, and is put above datetime.max
NotADate == Timestamp(9999, 12, 31) + 1

\* _convert_columns: pd.to_datetime raises ValueError when a timestamp of the
\* frame does not parse
convert_columns_raises(df) == \E i \in DOMAIN df : df[i].timestamp = NotADate

construct_empty_dataframe == <<>>

make_dataframe_from_list_of_readings(readings) ==
    IF readings # <<>> THEN repair_dataframe(readings)
    ELSE construct_empty_dataframe

\* float("nan"), the one value of a reading that is null to pandera
NaN == 0 - 1

\* SensorData.validate: every categorical value is in its vocabulary and no
\* reading is null
validate(df) ==
    \A i \in DOMAIN df :
        /\ df[i].sensor_type \in Range(SensorTypeValues)
        /\ df[i].sensor \in Range(SensorValues)
        /\ df[i].unit \in Range(UnitValues)
        /\ df[i].reading # NaN

\* df.loc[(slice(None), slice(None), slice(start, stop)), :]: a label slice
\* on the timestamp level, closed at both ends; None leaves an end open
loc_timestamp(df, start, stop) ==
    SelectSeq(df, LAMBDA row :
        /\ (start = None \/ start <= row.timestamp)
        /\ (stop = None \/ row.timestamp <= stop))

(***************************************************************************)
(* ParquetManager over a DictBackend (parquetmanager.py).                  *)
(***************************************************************************)
\* start_of_week counted from the Monday on or before January 1
start_of_week_jan_first(year, week) ==
    LET jan_first == Timestamp(year, 1, 1)
        start_of_week_one == jan_first - weekday(jan_first)
    IN  start_of_week_one + (week - 1) * 7

\* start_of_week counted from the first Monday of the calendar year
start_of_week_first_monday(year, week) ==
    LET jan_first == Timestamp(year, 1, 1)
        start_of_week_one == jan_first + ((7 - weekday(jan_first)) % 7)
    IN  start_of_week_one + (week - 1) * 7

\* start_of_week: the Monday of the week of January 4, and week - 1 weeks on
start_of_week(year, week) ==
    LET jan_fourth == Timestamp(year, 1, 4)
        start_of_week_one == jan_fourth - weekday(jan_fourth)
    IN  start_of_week_one + (week - 1) * 7

\* end_of_week as the last day of the week
end_of_week_last_day(year, week) == start_of_week(year, week) + 6

\* end_of_week: the date that starts the week after the one given
end_of_week(year, week) == start_of_week(year, week) + 7

\* start_of_week_timestamp that takes the calendar year of the timestamp for
\* its ISO year
start_of_week_timestamp_calendar_year(timestamp) ==
    start_of_week(YearOf(timestamp), isocalendar(timestamp)[2])

\* start_of_week_timestamp: start_of_week of the ISO year and week of the
\* timestamp
start_of_week_timestamp(timestamp) ==
    LET iso == isocalendar(timestamp) IN start_of_week(iso[1], iso[2])

\* f"{year}-W{week:02}": the year's digits followed by two digits of the week
archive_name_for_week(year, week) == year * 100 + week

\* name.split("-W") read back as <<year, week>> and turned into a week start
name_to_timestamp(name) == start_of_week(name \div 100, name % 100)

\* DictBackend.empty
backend_empty(arch) == DOMAIN arch = {}

\* what a backend holds under a name whose persisted unit cannot be read back
CorruptFile ==
    <<[sensor_type |-> "corrupt", sensor |-> "corrupt", timestamp |-> None,
       reading |-> NaN, unit |-> "corrupt"]>>

\* DictBackend.load_dataframe: a missing key gives an empty dataframe;
\* ParquetBackend.load_dataframe: so does any exception of Parquet.load
backend_load_dataframe(arch, name) ==
    IF name \in DOMAIN arch /\ arch[name] # CorruptFile
    THEN arch[name]
    ELSE construct_empty_dataframe

\* DictBackend.save_dataframe
backend_save_dataframe(arch, df, name) ==
    [n \in DOMAIN arch \cup {name} |-> IF n = name THEN df ELSE arch[n]]

load_single_week(arch, year, week) ==
    backend_load_dataframe(arch, archive_name_for_week(year, week))

\* _get_recent_weeks: <<isocalendar of a week ago, isocalendar of today>>
get_recent_weeks == <<isocalendar(Today - 7), isocalendar(Today)>>

\* ParquetManager.load_dataframe: last week's and this week's shards
load_dataframe(arch) ==
    LET last_week == get_recent_weeks[1]
        today == get_recent_weeks[2]
    IN  load_single_week(arch, last_week[1], last_week[2])
            \o load_single_week(arch, today[1], today[2])

RECURSIVE SortedSeqOf(_)
\* the members of a set of integers in ascending order
SortedSeqOf(S) ==
    IF S = {} THEN <<>>
    ELSE LET m == CHOOSE x \in S : \A y \in S : x <= y
         IN  <<m>> \o SortedSeqOf(S \ {m})

\* _get_dataframe_week_ranges: the distinct week starts of the rows, ascending
get_dataframe_week_ranges(df) ==
    SortedSeqOf({ start_of_week_timestamp(df[i].timestamp) : i \in DOMAIN df })

\* _save_dataframe_by_week without the merge with the week's old data
save_dataframe_by_week_overwrite(arch, df, week_starting_point) ==
    LET isoformat == isocalendar(week_starting_point)
    IN  backend_save_dataframe(
            arch, sort_index(repair_dataframe(df)),
            archive_name_for_week(isoformat[1], isoformat[2]))

\* _save_dataframe_by_week: the week's shard becomes its old rows and the new
\* ones, repaired and sorted
save_dataframe_by_week(arch, df, week_starting_point) ==
    LET isoformat == isocalendar(week_starting_point)
        old_data == load_single_week(arch, isoformat[1], isoformat[2])
        merged == sort_index(repair_dataframe(old_data \o df))
    IN  backend_save_dataframe(
            arch, merged, archive_name_for_week(isoformat[1], isoformat[2]))

RECURSIVE SaveWeeks(_, _, _)
\* the loop of save_dataframe over the week starting points
SaveWeeks(arch, df, weeks) ==
    IF weeks = <<>> THEN arch
    ELSE LET week == Head(weeks)
             part == loc_timestamp(df, week, week + 7)
         IN  SaveWeeks(save_dataframe_by_week(arch, part, week), df, Tail(weeks))

save_dataframe(arch, df) == SaveWeeks(arch, df, get_dataframe_week_ranges(df))

Max(S) == CHOOSE x \in S : \A y \in S : y <= x
MinOf(S) == CHOOSE x \in S : \A y \in S : x <= y

oldest_date(arch) == MinOf({ name_to_timestamp(n) : n \in DOMAIN arch })

\* latest_date as the start of the newest shard's week
latest_date_week_start(arch) == Max({ name_to_timestamp(n) : n \in DOMAIN arch })

\* ParquetManager.latest_date: the end of the newest shard's week
latest_date(arch) == Max({ name_to_timestamp(n) : n \in DOMAIN arch }) + 7

RECURSIVE LoadWeeks(_, _, _, _)
\* pd.concat of load_single_week(year, week) for week in range(first, stop)
LoadWeeks(arch, year, first, stop) ==
    IF first >= stop THEN <<>>
    ELSE load_single_week(arch, year, first) \o LoadWeeks(arch, year, first + 1, stop)

RECURSIVE load_recursively_lenient(_, _, _)
\* _load_recursively that gives up only when start is a week or more past end
load_recursively_lenient(arch, start, end) ==
    IF start > end + 6 THEN construct_empty_dataframe
    ELSE LET start_iso == isocalendar(start)
             end_iso == isocalendar(end)
         IN  IF start_iso[1] # end_iso[1]
             THEN LET year == start_iso[1]
                      final_week == isocalendar(Timestamp(year, 12, 28))[2]
                      frame == LoadWeeks(arch, year, start_iso[2], final_week + 1)
                      new_year == Timestamp(year + 1, 1, 4)
                  IN  load_recursively_lenient(arch, new_year, end) \o frame
             ELSE IF start_iso[2] = end_iso[2]
                  THEN load_single_week(arch, start_iso[1], start_iso[2])
                  ELSE LoadWeeks(arch, start_iso[1], start_iso[2], end_iso[2] + 1)

RECURSIVE load_recursively(_, _, _)
\* ParquetManager._load_recursively
load_recursively(arch, start, end) ==
    IF start > end THEN construct_empty_dataframe
    ELSE LET start_iso == isocalendar(start)
             end_iso == isocalendar(end)
         IN  IF start_iso[1] # end_iso[1]
             THEN LET year == start_iso[1]
                      final_week == isocalendar(Timestamp(year, 12, 28))[2]
                      frame == LoadWeeks(arch, year, start_iso[2], final_week + 1)
                      new_year == Timestamp(year + 1, 1, 4)
                  IN  load_recursively(arch, new_year, end) \o frame
             ELSE IF start_iso[2] = end_iso[2]
                  THEN load_single_week(arch, start_iso[1], start_iso[2])
                  ELSE LoadWeeks(arch, start_iso[1], start_iso[2], end_iso[2] + 1)

RECURSIVE weeks_loaded(_, _)
\* the weeks _load_recursively passes to _load_single_week
weeks_loaded(start, end) ==
    IF start > end THEN {}
    ELSE LET start_iso == isocalendar(start)
             end_iso == isocalendar(end)
         IN  IF start_iso[1] # end_iso[1]
             THEN LET year == start_iso[1]
                      final_week == isocalendar(Timestamp(year, 12, 28))[2]
                  IN  weeks_loaded(Timestamp(year + 1, 1, 4), end)
                          \cup { archive_name_for_week(year, week) :
                                     week \in start_iso[2]..final_week }
             ELSE { archive_name_for_week(start_iso[1], week) :
                       week \in start_iso[2]..end_iso[2] }

RECURSIVE load_recursively_calls_same_year(_, _, _)
\* the invocations of a _load_recursively that restarts at January 4 of the
\* year it was already in
load_recursively_calls_same_year(start, end, fuel) ==
    IF fuel = 0 THEN <<>>
    ELSE IF start > end THEN <<start>>
    ELSE LET start_iso == isocalendar(start)
             end_iso == isocalendar(end)
         IN  IF start_iso[1] # end_iso[1]
             THEN LET year == start_iso[1]
                      new_year == Timestamp(year, 1, 4)
                  IN  <<start>> \o load_recursively_calls_same_year(new_year, end, fuel - 1)
             ELSE <<start>>

RECURSIVE load_recursively_calls(_, _, _)
\* the start arguments of the nested invocations of _load_recursively, the
\* outermost first; no more than fuel of them are followed
load_recursively_calls(start, end, fuel) ==
    IF fuel = 0 THEN <<>>
    ELSE IF start > end THEN <<start>>
    ELSE LET start_iso == isocalendar(start)
             end_iso == isocalendar(end)
         IN  IF start_iso[1] # end_iso[1]
             THEN LET year == start_iso[1]
                      new_year == Timestamp(year + 1, 1, 4)
                  IN  <<start>> \o load_recursively_calls(new_year, end, fuel - 1)
             ELSE <<start>>

load_old_data(arch, start, end) ==
    load_recursively(arch,
        IF start = None THEN oldest_date(arch) ELSE start,
        IF end = None THEN latest_date(arch) ELSE end)

\* get_historic_data that reads the whole archive whatever the bounds
get_historic_data_whole_archive(arch, start, end) ==
    IF backend_empty(arch) THEN construct_empty_dataframe
    ELSE sort_index(repair_dataframe(load_old_data(arch, None, None)))

\* ParquetManager.get_historic_data
get_historic_data(arch, start, end) ==
    IF backend_empty(arch) THEN construct_empty_dataframe
    ELSE sort_index(repair_dataframe(load_old_data(arch, start, end)))

(***************************************************************************)
(* SensorReadingQueue.                                                     *)
(***************************************************************************)
\* deque(maxlen=maxlen).append without the eviction
deque_append_unbounded(q, reading) == Append(q, reading)

\* deque(maxlen=maxlen).append: a full deque drops its oldest entry
deque_append(q, reading) ==
    IF Len(q) = MaxLen THEN Append(Tail(q), reading) ELSE Append(q, reading)

\* get_unsynced_queue raises ValueError when islice is given a negative start
unsynced_raises(q, c) == Len(q) >= MaxLen /\ MaxLen - c < 0

get_unsynced_queue_short(q, c) ==
    IF Len(q) < MaxLen
    THEN islice(q, 0, c)
    ELSE islice(q, MaxLen - c + 1, MaxLen)

get_unsynced_queue(q, c) ==
    IF Len(q) < MaxLen
    THEN islice(q, 0, c)
    ELSE islice(q, MaxLen - c, MaxLen)

reset_counter(q, c) == IF Len(q) < MaxLen THEN 0 ELSE Len(q)

\* the counter test of add_reading that decides whether the callback runs
counter_full_late(c) == c = MaxLen + 1

counter_full(c) == c = MaxLen

\* might_contain_data_newer_than_timestamp: the newest entry is at or after it
might_contain_data_newer_than_timestamp(q, timestamp) ==
    IF q = <<>> THEN FALSE
    ELSE timestamp = None \/ q[Len(q)].timestamp >= timestamp

\* might_contain_data_older_than_timestamp: the oldest entry is at or before it
might_contain_data_older_than_timestamp(q, timestamp) ==
    IF q = <<>> THEN FALSE
    ELSE timestamp = None \/ timestamp >= q[1].timestamp

\* the reversed scan with the comparison timestamp < reading.timestamp
find_first_entry_older_than_timestamp_strict(q, timestamp) ==
    LET len == Len(q)
        stops == { i \in 0..(len - 1) : ~(timestamp < q[len - i].timestamp) }
    IN  IF stops = {} THEN 0 ELSE len - MinOf(stops)

\* _find_first_entry_older_than_timestamp: scan from the newest entry while
\* timestamp <= reading.timestamp; stopping at reversed position i gives
\* len - i, and a scan that never stops gives 0
find_first_entry_older_than_timestamp(q, timestamp) ==
    LET len == Len(q)
        stops == { i \in 0..(len - 1) : ~(timestamp <= q[len - i].timestamp) }
    IN  IF stops = {} THEN 0 ELSE len - MinOf(stops)

\* the forward scan with the comparison reading.timestamp < timestamp
find_last_entry_newer_than_timestamp_strict(q, timestamp) ==
    LET len == Len(q)
        stops == { i \in 0..(len - 1) : ~(q[i + 1].timestamp < timestamp) }
    IN  IF stops = {} THEN len ELSE MinOf(stops)

\* _find_last_entry_newer_than_timestamp: scan from the oldest entry while
\* reading.timestamp <= timestamp; stopping at position i gives i, and a scan
\* that never stops gives len
find_last_entry_newer_than_timestamp(q, timestamp) ==
    LET len == Len(q)
        stops == { i \in 0..(len - 1) : ~(q[i + 1].timestamp <= timestamp) }
    IN  IF stops = {} THEN len ELSE MinOf(stops)

\* SensorReadingQueue.get_data_in_interval
get_data_in_interval(q, start, end) ==
    IF \/ ~might_contain_data_newer_than_timestamp(q, start)
       \/ ~might_contain_data_older_than_timestamp(q, end)
    THEN construct_empty_dataframe
    ELSE LET start_idx == IF start = None THEN 0
                          ELSE find_first_entry_older_than_timestamp(q, start)
             end_idx == IF end = None THEN Len(q)
                        ELSE find_last_entry_newer_than_timestamp(q, end)
         IN  make_dataframe_from_list_of_readings(islice(q, start_idx, end_idx))

(***************************************************************************)
(* DataStore (datastore.py).                                               *)
(***************************************************************************)
\* SensorReadingQueue.contains of datastore.py
contains(q, timestamp) ==
    IF q = <<>> THEN FALSE ELSE timestamp > q[1].timestamp

\* SensorReadingQueue.get_since_timestamp of datastore.py: the reversed scan
\* stops at the first reading that is not newer than the timestamp, at
\* reversed position i, and returns the slice [len - i + 1, len)
get_since_timestamp(q, timestamp) ==
    IF ~contains(q, timestamp)
    THEN [raised |-> "KeyError", df |-> <<>>]
    ELSE LET len == Len(q)
             stops == { i \in 0..(len - 1) : ~(timestamp < q[len - i].timestamp) }
         IN  IF stops = {}
             THEN [raised |-> "KeyError", df |-> <<>>]
             ELSE [raised |-> "none",
                   df |-> make_dataframe_from_list_of_readings(
                              islice(q, (0 - MinOf(stops)) + 1 + len, len))]

\* ParquetManager.earliest_date of datastore.py: the start of last week
earliest_date == start_of_week(get_recent_weeks[1][1], get_recent_weeks[1][2])

\* _load_archive with no proxy: _load_dataframe_from_file
load_archive(arch) == sort_index(load_dataframe(arch))

load_dataframe_from_queue(q) == make_dataframe_from_list_of_readings(q)

merge_queue_with_dataframe(old_dataframe, q) ==
    LET new_dataframe == load_dataframe_from_queue(q)
    IN  IF Len(new_dataframe) = 0 THEN old_dataframe
        ELSE sort_index(old_dataframe
                 \o (IF validate(new_dataframe) THEN new_dataframe
                     ELSE construct_empty_dataframe))

\* the dataframe property once the cache is loaded: fold in the unsynced
\* queue, reset the counter.  get_unsynced_queue may raise after the reload.
dataframe_merge(loaded, q, c) ==
    IF unsynced_raises(q, c)
    THEN [raised |-> "ValueError", dataframe |-> loaded, counter |-> c]
    ELSE IF convert_columns_raises(get_unsynced_queue(q, c))
    THEN [raised |-> "ValueError", dataframe |-> loaded, counter |-> c]
    ELSE [raised |-> "none",
          dataframe |-> merge_queue_with_dataframe(loaded, get_unsynced_queue(q, c)),
          counter |-> reset_counter(q, c)]

\* the dataframe property of a store without a proxy: reload from the
\* archive when flagged or empty, then merge
dataframe_property(df, rl, q, c, arch) ==
    dataframe_merge(IF rl \/ Len(df) = 0 THEN load_archive(arch) ELSE df, q, c)

\* remotereader.download_archive with the transport error swallowed into an
\* empty payload
download_archive_swallows(outcome) ==
    IF outcome.kind = "TransportError"
    THEN [raised |-> "none", payload |-> <<>>]
    ELSE IF outcome.kind = "status"
    THEN [raised |-> "HTTPException", payload |-> <<>>]
    ELSE [raised |-> "none", payload |-> outcome.payload]

\* remotereader.download_archive: a transport error of the request becomes
\* ArchiveNotAvailableException, a status other than 200 an HTTPException,
\* and a 200 response gives its payload
download_archive(outcome) ==
    IF outcome.kind = "TransportError"
    THEN [raised |-> "ArchiveNotAvailableException", payload |-> <<>>]
    ELSE IF outcome.kind = "status"
    THEN [raised |-> "HTTPException", payload |-> <<>>]
    ELSE [raised |-> "none", payload |-> outcome.payload]

\* _download_archive_from_proxy: the payload loaded through its format, whose
\* load repairs the dataframe
download_archive_from_proxy(outcome) ==
    LET response == download_archive(outcome)
    IN  [raised |-> response.raised,
         df |-> IF response.raised = "none"
                THEN repair_dataframe(response.payload)
                ELSE <<>>]

\* the dataframe property of a store with a proxy: a reload fetches the
\* archive from the peer, and a failed fetch ends the evaluation before
\* anything is assigned
proxy_dataframe_property(df, rl, q, c, outcome) ==
    IF rl \/ Len(df) = 0
    THEN LET fetched == download_archive_from_proxy(outcome)
         IN  IF fetched.raised # "none"
             THEN [raised |-> fetched.raised, dataframe |-> df, counter |-> c,
                   fetch |-> outcome.kind, reloaded |-> FALSE]
             ELSE dataframe_merge(fetched.df, q, c)
                      @@ [fetch |-> outcome.kind, reloaded |-> TRUE]
    ELSE dataframe_merge(df, q, c) @@ [fetch |-> "none", reloaded |-> FALSE]

\* no request is in flight and the timer task is not running
NoThreads ==
    [pc |-> [reader |-> "idle", flusher |-> "idle"],
     table |-> <<>>, weeks |-> <<>>, before |-> <<>>, after |-> <<>>,
     slicedAt |-> 0, missed |-> {}]

InitQueue ==
    /\ queue = <<>>
    /\ counter = 0
    /\ added = <<>>
    /\ sinceFlush = <<>>
    /\ fired = 0
    /\ lastBatch = <<>>
    /\ expectBatch = <<>>
    /\ everReset = FALSE
    /\ lastOp = "init"
    /\ result = <<>>
    /\ raised = "none"

\* DataStore.__init__ over an empty DictBackend
InitStore ==
    /\ archive = <<>>
    /\ dataframe = load_archive(archive)
    /\ reload = FALSE
    /\ otherOps = 0
    /\ flushedAt = 0
    /\ lastArg = None
    /\ lastEnd = None
    /\ lastTable = <<>>
    /\ peer = "none"
    /\ threads = NoThreads

\* DataStore.add_reading: the queue's add_reading with _update_from_queue as
\* its callback
AddReading(reading) ==
    /\ Len(added) < MaxAdds
    /\ NonDecreasing(added, reading)
    /\ LET q1 == deque_append(queue, reading)
           c1 == counter + 1
       IN  /\ queue' = q1
           /\ IF counter_full(c1) /\ convert_columns_raises(get_unsynced_queue(q1, c1))
              THEN \* the callback raises out of add_reading, before the
                   \* counter is set back to 0
                   /\ lastBatch' = get_unsynced_queue(q1, c1)
                   /\ expectBatch' = Append(sinceFlush, reading)
                   /\ fired' = fired + 1
                   /\ counter' = c1
                   /\ sinceFlush' = Append(sinceFlush, reading)
                   /\ raised' = "ValueError"
                   /\ UNCHANGED dataframe
              ELSE IF counter_full(c1)
              THEN /\ dataframe' =
                          merge_queue_with_dataframe(dataframe, get_unsynced_queue(q1, c1))
                   /\ lastBatch' = get_unsynced_queue(q1, c1)
                   /\ expectBatch' = Append(sinceFlush, reading)
                   /\ fired' = fired + 1
                   /\ sinceFlush' = <<>>
                   /\ counter' = 0
                   /\ raised' = "none"
              ELSE /\ counter' = c1
                   /\ sinceFlush' = Append(sinceFlush, reading)
                   /\ raised' = "none"
                   /\ UNCHANGED <<dataframe, callbackVars>>
    /\ added' = Append(added, reading)
    /\ lastOp' = "add_reading"
    /\ UNCHANGED <<reload, archive, everReset, otherOps, flushedAt, lastArg, lastEnd,
                   lastTable, peer, threads, result>>

\* an evaluation of the dataframe property that leaves the reload flag as it
\* found it
ReadDataframe_keeps_flag(view) ==
    /\ dataframe' = view.dataframe
    /\ reload' = reload
    /\ counter' = view.counter
    /\ sinceFlush' = IF view.raised = "none" THEN <<>> ELSE sinceFlush
    /\ everReset' = (everReset \/ view.raised = "none")

\* the effect of one evaluation of the dataframe property on the store
ReadDataframe(view) ==
    /\ dataframe' = view.dataframe
    /\ reload' = FALSE
    /\ counter' = view.counter
    /\ sinceFlush' = IF view.raised = "none" THEN <<>> ELSE sinceFlush
    /\ everReset' = (everReset \/ view.raised = "none")

\* a read of DataStore.dataframe (current_view)
CurrentView ==
    LET view == dataframe_property(dataframe, reload, queue, counter, archive)
    IN  /\ Len(dataframe) <= MaxRows
        /\ ReadDataframe(view)
        /\ result' = IF view.raised = "none" THEN view.dataframe ELSE <<>>
        /\ raised' = view.raised
        /\ lastOp' = "dataframe"
        /\ otherOps' = Min(otherOps + 1, 2)
        /\ UNCHANGED <<queue, archive, added, callbackVars, flushedAt, lastArg, lastEnd,
                       lastTable, peer, threads>>

\* DataStore.archive_data (flush)
ArchiveData ==
    LET view == dataframe_property(dataframe, reload, queue, counter, archive)
    IN  /\ Len(dataframe) <= MaxRows
        /\ dataframe' = view.dataframe
        /\ counter' = view.counter
        /\ sinceFlush' = IF view.raised = "none" THEN <<>> ELSE sinceFlush
        /\ everReset' = (everReset \/ view.raised = "none")
        /\ IF view.raised = "none"
           THEN /\ archive' = save_dataframe(archive, view.dataframe)
                /\ reload' = TRUE
                /\ flushedAt' = Len(added)
           ELSE /\ reload' = FALSE
                /\ UNCHANGED <<archive, flushedAt>>
        /\ raised' = view.raised
        /\ result' = <<>>
        /\ lastOp' = "archive_data"
        /\ otherOps' = Min(otherOps + 1, 2)
        /\ UNCHANGED <<queue, added, callbackVars, lastArg, lastEnd, lastTable, peer, threads>>

\* the body of DataStore.get_archive_since(timestamp): the buffer answers when
\* it reaches back far enough, the archive when the timestamp is older than
\* the hot cache, the hot cache otherwise
get_archive_since(timestamp) ==
    LET fromQueue == get_since_timestamp(queue, timestamp)
        view == dataframe_property(dataframe, reload, queue, counter, archive)
    IN  IF timestamp = None
        THEN \* None is ordered against a timestamp: by contains when the
             \* buffer holds a reading, by the test against earliest_date
             \* once the empty buffer has raised KeyError
             /\ result' = <<>>
             /\ raised' = "TypeError"
             /\ UNCHANGED <<dataframe, reload, counter, sinceFlush, everReset>>
        ELSE IF fromQueue.raised = "none"
        THEN /\ result' = fromQueue.df
             /\ raised' = "none"
             /\ UNCHANGED <<dataframe, reload, counter, sinceFlush, everReset>>
        ELSE IF timestamp < earliest_date
        THEN /\ result' = loc_timestamp(
                              sort_index(repair_dataframe(
                                  get_historic_data(archive, timestamp, None))),
                              timestamp, None)
             /\ raised' = "none"
             /\ UNCHANGED <<dataframe, reload, counter, sinceFlush, everReset>>
        ELSE /\ ReadDataframe(view)
             /\ raised' = view.raised
             /\ result' = IF view.raised = "none"
                          THEN loc_timestamp(view.dataframe, timestamp, None)
                          ELSE <<>>

\* DataStore.get_archive_since(timestamp)
GetArchiveSince(timestamp) ==
    /\ Len(dataframe) <= MaxRows
    /\ lastArg' = timestamp
    /\ lastEnd' = None
    /\ lastOp' = "get_archive_since"
    /\ otherOps' = Min(otherOps + 1, 2)
    /\ get_archive_since(timestamp)
    /\ UNCHANGED <<queue, archive, added, callbackVars, flushedAt, lastTable, peer, threads>>

\* DataStore.serialize_archive(timestamp): the hot cache without a timestamp,
\* get_archive_since with one (the bytes are the table they serialize)
serialize_archive(timestamp) ==
    LET view == dataframe_property(dataframe, reload, queue, counter, archive)
    IN  IF timestamp = None
        THEN /\ ReadDataframe(view)
             /\ raised' = view.raised
             /\ result' = IF view.raised = "none" THEN view.dataframe ELSE <<>>
        ELSE get_archive_since(timestamp)

\* a range check that lets every pair of timestamps through
range_is_reversed_never(start, end) == FALSE

\* server.get_serialized_archive: the check made on the two timestamps of a
\* range query before the store is asked
range_is_reversed(start, end) == start # None /\ end # None /\ start > end

\* server.get_serialized_archive(datastore, start, end, format)
GetSerializedArchive(start, end) ==
    /\ Len(dataframe) <= MaxRows
    /\ lastArg' = start
    /\ lastEnd' = end
    /\ lastOp' = "get_serialized_archive"
    /\ otherOps' = Min(otherOps + 1, 2)
    /\ IF range_is_reversed(start, end)
       THEN /\ raised' = "HTTPException"
            /\ result' = <<>>
            /\ UNCHANGED <<dataframe, reload, counter, sinceFlush, everReset>>
       ELSE serialize_archive(start)
    /\ UNCHANGED <<queue, archive, added, callbackVars, flushedAt, lastTable, peer, threads>>

(***************************************************************************)
(* The write buffer on its own, with a callback that records its batch    *)
(* (tests/test_queue.py).                                                  *)
(***************************************************************************)
\* SensorReadingQueue.add_reading with the recording callback
QueueAddReading(reading) ==
    /\ Len(added) < MaxQueueAdds
    /\ NonDecreasing(added, reading)
    /\ LET q1 == deque_append(queue, reading)
           c1 == counter + 1
       IN  /\ queue' = q1
           /\ IF counter_full(c1)
              THEN /\ lastBatch' = get_unsynced_queue(q1, c1)
                   /\ expectBatch' = Append(sinceFlush, reading)
                   /\ fired' = fired + 1
                   /\ sinceFlush' = <<>>
                   /\ counter' = 0
              ELSE /\ counter' = c1
                   /\ sinceFlush' = Append(sinceFlush, reading)
                   /\ UNCHANGED <<lastBatch, expectBatch, fired>>
    /\ added' = Append(added, reading)
    /\ lastOp' = "add_reading"
    /\ raised' = "none"
    /\ UNCHANGED <<everReset, result, storeVars>>

\* SensorReadingQueue.reset_counter
QueueResetCounter ==
    /\ counter' = reset_counter(queue, counter)
    /\ sinceFlush' = <<>>
    /\ everReset' = TRUE
    /\ lastOp' = "reset_counter"
    /\ raised' = "none"
    /\ UNCHANGED <<queue, added, fired, lastBatch, expectBatch, result, storeVars>>

NextQueue ==
    \/ \E reading \in Readings : QueueAddReading(reading)
    \/ QueueResetCounter

\* a store constructed on an empty backend with an empty queue
Init == InitQueue /\ InitStore


SpecQueue == Init /\ [][NextQueue]_vars

(***************************************************************************)
(* Interval queries on a write buffer filled with sorted readings          *)
(* (tests/test_queue.py: test_queue_get_data_in_interval).                 *)
(***************************************************************************)
\* the bounds a query is asked with: none, the timestamp of any reading, and
\* a day later than every reading
QueryTimestamps == Timestamps \cup {None, Timestamp(2024, 1, 15)}

\* SensorReadingQueue.get_data_in_interval(start, end)
QueueGetDataInInterval(start, end) ==
    /\ result' = get_data_in_interval(queue, start, end)
    /\ lastArg' = start
    /\ lastEnd' = end
    /\ lastOp' = "get_data_in_interval"
    /\ raised' = "none"
    /\ UNCHANGED <<queue, counter, added, sinceFlush, callbackVars, everReset,
                   dataframe, reload, archive, otherOps, flushedAt, lastTable, peer, threads>>

NextInterval ==
    \/ \E reading \in Readings : QueueAddReading(reading)
    \/ \E start, end \in QueryTimestamps : QueueGetDataInInterval(start, end)

SpecInterval == Init /\ [][NextInterval]_vars

(***************************************************************************)
(* Every operation of the write buffer, in any order.                      *)
(***************************************************************************)
\* SensorReadingQueue.get_unsynced_queue(): the slice, or the ValueError of
\* islice when the start index is negative
QueueGetUnsyncedQueue ==
    /\ IF unsynced_raises(queue, counter)
       THEN result' = <<>> /\ raised' = "ValueError"
       ELSE result' = get_unsynced_queue(queue, counter) /\ raised' = "none"
    /\ lastOp' = "get_unsynced_queue"
    /\ UNCHANGED <<queue, counter, added, sinceFlush, callbackVars, everReset,
                   storeVars>>

\* the bounds of the queries made between the other operations
BufferQueryTimestamps == {None, Timestamp(2024, 1, 8)}

NextBuffer ==
    \/ \E reading \in Readings : QueueAddReading(reading)
    \/ QueueResetCounter
    \/ QueueGetUnsyncedQueue
    \/ \E start, end \in BufferQueryTimestamps : QueueGetDataInInterval(start, end)

SpecBuffer == Init /\ [][NextBuffer]_vars

(***************************************************************************)
(* The sharded archive on its own: ParquetManager over a DictBackend       *)
(* (tests/test_parquetmanager.py).                                         *)
(***************************************************************************)
RECURSIVE SeqOfSet(_)
\* the members of a set of readings, one after another
SeqOfSet(S) ==
    IF S = {} THEN <<>>
    ELSE LET r == CHOOSE x \in S : TRUE IN <<r>> \o SeqOfSet(S \ {r})

\* the dataframes handed to save_dataframe: any set of readings of one sensor
\* as a sorted, duplicate-free table
Tables ==
    { sort_index(SeqOfSet(S)) :
        S \in SUBSET { r \in Readings : r.sensor_type = "temperature" } }

\* the bounds a historic query is asked with: none, a day in 2023-W52, the
\* Monday and the Friday of 2024-W01, and a day in 2024-W02
HistoricTimestamps ==
    { None, Timestamp(2023, 12, 27), Timestamp(2024, 1, 1),
      Timestamp(2024, 1, 5), Timestamp(2024, 1, 9) }

\* ParquetManager.save_dataframe(table)
SaveDataframe(table) ==
    /\ archive' = save_dataframe(archive, table)
    /\ lastTable' = table
    /\ lastOp' = IF lastOp \in {"save_dataframe", "save_dataframe_again"}
                     /\ lastTable = table
                  THEN "save_dataframe_again"
                  ELSE "save_dataframe"
    /\ raised' = "none"
    /\ result' = <<>>
    /\ UNCHANGED <<queue, counter, added, sinceFlush, callbackVars, everReset,
                   dataframe, reload, otherOps, flushedAt, lastArg, lastEnd, peer, threads>>

\* ParquetManager.get_historic_data(start, end)
GetHistoricData(start, end) ==
    /\ result' = get_historic_data(archive, start, end)
    /\ lastArg' = start
    /\ lastEnd' = end
    /\ lastOp' = "get_historic_data"
    /\ raised' = "none"
    /\ UNCHANGED <<queue, counter, added, sinceFlush, callbackVars, everReset,
                   dataframe, reload, archive, otherOps, flushedAt, lastTable, peer, threads>>

NextArchive ==
    \/ \E table \in Tables : SaveDataframe(table)
    \/ \E start, end \in HistoricTimestamps : GetHistoricData(start, end)

SpecArchive == Init /\ [][NextArchive]_vars

(***************************************************************************)
(* The two schema checks applied to one candidate reading: the validators  *)
(* of SensorReading (sensor.py) and the validation of a dataframe that     *)
(* holds the reading as its row (tests/test_sensor.py).                    *)
(***************************************************************************)
\* SensorReading.is_in_sensor_type
is_in_sensor_type(v) == v \in Range(SensorTypeValues)

\* SensorReading.is_in_sensor
is_in_sensor(v) == v \in Range(SensorValues)

\* SensorReading.is_in_unit
is_in_unit(v) == v \in Range(UnitValues)

\* the validators pydantic runs when a SensorReading is constructed
sensor_reading_validators(r) ==
    is_in_sensor(r.sensor) /\ is_in_unit(r.unit) /\ is_in_sensor_type(r.sensor_type)

\* the values a candidate reading is made of: the vocabularies and, for each
\* field, the value the tests put in its place
CandidateSensorTypes == Range(SensorTypeValues) \cup {"t"}
CandidateSensors == Range(SensorValues) \cup {"dht11"}
CandidateUnits == Range(UnitValues) \cup {"K"}

CandidateReadings ==
    { [sensor_type |-> st, sensor |-> sn, timestamp |-> ts, reading |-> 20,
       unit |-> u] :
        st \in CandidateSensorTypes, sn \in CandidateSensors,
        ts \in {Timestamp(2024, 1, 8), Timestamp(2024, 1, 9)},
        u \in CandidateUnits }

\* a candidate reading arrives; nothing else has happened
InitSchema ==
    /\ InitQueue
    /\ archive = <<>>
    /\ dataframe = <<>>
    /\ reload = FALSE
    /\ otherOps = 0
    /\ flushedAt = 0
    /\ lastArg = None
    /\ lastEnd = None
    /\ lastTable \in { <<r>> : r \in CandidateReadings }
    /\ peer = "none"
    /\ threads = NoThreads

\* SensorReading(**fields)
ConstructSensorReading ==
    /\ raised' = IF sensor_reading_validators(lastTable[1]) THEN "none"
                 ELSE "ValidationError"
    /\ result' = IF sensor_reading_validators(lastTable[1]) THEN lastTable ELSE <<>>
    /\ lastOp' = "SensorReading"
    /\ UNCHANGED <<queue, counter, added, sinceFlush, callbackVars, everReset,
                   dataframe, reload, archive, otherOps, flushedAt, lastArg, lastEnd,
                   lastTable, peer, threads>>

\* SensorData.validate(dataframe)
ValidateDataframe ==
    /\ raised' = IF validate(lastTable) THEN "none" ELSE "SchemaError"
    /\ result' = IF validate(lastTable) THEN lastTable ELSE <<>>
    /\ lastOp' = "validate"
    /\ UNCHANGED <<queue, counter, added, sinceFlush, callbackVars, everReset,
                   dataframe, reload, archive, otherOps, flushedAt, lastArg, lastEnd,
                   lastTable, peer, threads>>

NextSchema ==
    \/ ConstructSensorReading
    \/ ValidateDataframe

SpecSchema == InitSchema /\ [][NextSchema]_vars

(***************************************************************************)
(* The two serialization formats applied to one table and read back        *)
(* (sensordata.py, tests/test_sensor.py).  The timestamps of these tables  *)
(* count the microseconds past 2024-01-09 00:00:00, the resolution of the  *)
(* "%Y-%m-%d %H:%M:%S.%f" strings readings carry.                          *)
(***************************************************************************)
\* ParquetFormatSensorData.serialize: reset_index, then to_parquet, which
\* stores every column with its values
parquet_serialize(df) == [format |-> "parquet", columns |-> df]

\* ParquetFormatSensorData.load: read_parquet, then repair_dataframe
parquet_load(serialized) == repair_dataframe(serialized.columns)

\* JSONFormatSensorData.serialize: to_json(orient="table") with its defaults
\* writes a timestamp as an ISO 8601 string at date_unit "ms", that is with
\* three digits of the second's fraction
json_serialize(df) ==
    [format |-> "json",
     data |-> [i \in DOMAIN df |->
                  [df[i] EXCEPT !.timestamp = @ - (@ % 1000)]]]

\* JSONFormatSensorData.load: read_json(orient="table"), which parses the
\* strings back and sets the index the schema names
json_load(serialized) == serialized.data

\* one millisecond past the hour, a microsecond later, and two milliseconds
FormatTimestamps == {1000, 1001, 2000}

\* the tables that are serialized, as the test strategy builds them: sorted,
\* of 0 to 3 rows
FormatTables ==
    { sort_index(SeqOfSet(S)) :
        S \in { T \in SUBSET { SensorReading("temperature", sn, ts) :
                                  sn \in {"DHT11", "PI_CPU"}, ts \in FormatTimestamps } :
                    Cardinality(T) <= 3 } }

\* a table is chosen; nothing else has happened
InitFormat ==
    /\ InitQueue
    /\ archive = <<>>
    /\ dataframe = <<>>
    /\ reload = FALSE
    /\ otherOps = 0
    /\ flushedAt = 0
    /\ lastArg = None
    /\ lastEnd = None
    /\ lastTable \in FormatTables
    /\ peer = "none"
    /\ threads = NoThreads

\* SensorData.Parquet.load(SensorData.Parquet.serialize(dataframe))
ParquetRoundTrip ==
    /\ result' = repair_dataframe(parquet_load(parquet_serialize(lastTable)))
    /\ lastOp' = "parquet"
    /\ raised' = "none"
    /\ UNCHANGED <<queue, counter, added, sinceFlush, callbackVars, everReset,
                   dataframe, reload, archive, otherOps, flushedAt, lastArg, lastEnd,
                   lastTable, peer, threads>>

\* SensorData.JSON.load(SensorData.JSON.serialize(dataframe)), repaired
JSONRoundTrip ==
    /\ result' = repair_dataframe(json_load(json_serialize(lastTable)))
    /\ lastOp' = "json"
    /\ raised' = "none"
    /\ UNCHANGED <<queue, counter, added, sinceFlush, callbackVars, everReset,
                   dataframe, reload, archive, otherOps, flushedAt, lastArg, lastEnd,
                   lastTable, peer, threads>>

NextFormat ==
    \/ ParquetRoundTrip
    \/ JSONRoundTrip

SpecFormat == InitFormat /\ [][NextFormat]_vars

(***************************************************************************)
(* Historic queries over an archive whose shards span several ISO years.   *)
(***************************************************************************)
\* a Wednesday of 2020-W53, Wednesdays of 2023-W51 and 2023-W52, and the
\* Monday that starts 2024-W01
HistoricReadingTimestamps ==
    { Timestamp(2020, 12, 30), Timestamp(2023, 12, 20), Timestamp(2023, 12, 27),
      Timestamp(2024, 1, 1) }

\* the dataframes saved into the archive: any set of readings of one sensor
\* at these timestamps, as a sorted table
HistoricTables ==
    { sort_index(SeqOfSet(S)) :
        S \in SUBSET { SensorReading("temperature", "DHT11", ts) :
                          ts \in HistoricReadingTimestamps } }

\* the bounds of the historic queries: none, a day of 2023-W51, two days in
\* the middle of 2023-W52, the middle of 2024-W01, and a day after every
\* shard
HistoricBounds ==
    { None, Timestamp(2023, 12, 20), Timestamp(2023, 12, 27), Timestamp(2023, 12, 28),
      Timestamp(2024, 1, 4), Timestamp(2024, 1, 10) }

NextHistoric ==
    \/ \E table \in HistoricTables : SaveDataframe(table)
    \/ \E start, end \in HistoricBounds : GetHistoricData(start, end)

SpecHistoric == Init /\ [][NextHistoric]_vars

(***************************************************************************)
(* The archive with shards that are absent or cannot be read back.         *)
(***************************************************************************)
\* the names of the shards the tables are saved under
ShardNames ==
    { archive_name_for_week(2023, 52), archive_name_for_week(2024, 1),
      archive_name_for_week(2024, 2) }

\* the persisted unit of a shard is damaged behind the manager's back
CorruptShard(name) ==
    /\ name \in DOMAIN archive
    /\ archive[name] # CorruptFile
    /\ archive' = [archive EXCEPT ![name] = CorruptFile]
    /\ lastOp' = "corrupt"
    /\ raised' = "none"
    /\ result' = <<>>
    /\ UNCHANGED <<queue, counter, added, sinceFlush, callbackVars, everReset,
                   dataframe, reload, otherOps, flushedAt, lastArg, lastEnd,
                   lastTable, peer, threads>>

NextShards ==
    \/ \E table \in Tables : SaveDataframe(table)
    \/ \E name \in ShardNames : CorruptShard(name)
    \/ \E start, end \in HistoricTimestamps : GetHistoricData(start, end)

SpecShards == Init /\ [][NextShards]_vars

(***************************************************************************)
(* The week arithmetic of parquetmanager.py, applied to every week number  *)
(* of every year.                                                          *)
(***************************************************************************)
Years == FirstYear..LastYear

\* the week numbers a year can be asked for
WeekNumbers == 1..53

\* the number of ISO weeks of a year: December 28 is always in the last one
WeeksInYear(year) == isocalendar(Timestamp(year, 12, 28))[2]

\* a year and a week number are chosen; nothing else has happened
InitWeeks ==
    /\ InitQueue
    /\ archive = <<>>
    /\ dataframe = <<>>
    /\ reload = FALSE
    /\ otherOps = 0
    /\ flushedAt = 0
    /\ lastArg \in Years
    /\ lastEnd \in WeekNumbers
    /\ lastTable = <<>>
    /\ peer = "none"
    /\ threads = NoThreads

\* start_of_week(year, week) of the chosen year and week
StartOfWeek ==
    /\ result' = <<start_of_week(lastArg, lastEnd)>>
    /\ lastOp' = "start_of_week"
    /\ raised' = "none"
    /\ UNCHANGED <<queue, counter, added, sinceFlush, callbackVars, everReset,
                   dataframe, reload, archive, otherOps, flushedAt, lastArg, lastEnd,
                   lastTable, peer, threads>>

\* end_of_week(year, week) of the chosen year and week
EndOfWeek ==
    /\ result' = <<end_of_week(lastArg, lastEnd)>>
    /\ lastOp' = "end_of_week"
    /\ raised' = "none"
    /\ UNCHANGED <<queue, counter, added, sinceFlush, callbackVars, everReset,
                   dataframe, reload, archive, otherOps, flushedAt, lastArg, lastEnd,
                   lastTable, peer, threads>>

NextWeeks ==
    \/ StartOfWeek
    \/ EndOfWeek

SpecWeeks == InitWeeks /\ [][NextWeeks]_vars

(***************************************************************************)
(* The shard of a timestamp: its week start, the name of its shard, and    *)
(* the name read back.                                                     *)
(***************************************************************************)
\* the days where the ISO year and the calendar year can differ, for every
\* year of the week arithmetic: from December 22 to January 11
DaysAroundNewYear ==
    UNION { (Timestamp(year, 1, 1) - 10)..(Timestamp(year, 1, 1) + 10) : year \in Years }

\* every day of the years the store's readings are from
DaysOfRecentYears == Timestamp(2019, 1, 1)..Timestamp(2024, 12, 31)

Days == DaysAroundNewYear \cup DaysOfRecentYears

\* a timestamp is chosen; nothing else has happened
InitDays ==
    /\ InitQueue
    /\ archive = <<>>
    /\ dataframe = <<>>
    /\ reload = FALSE
    /\ otherOps = 0
    /\ flushedAt = 0
    /\ lastArg \in Days
    /\ lastEnd = None
    /\ lastTable = <<>>
    /\ peer = "none"
    /\ threads = NoThreads

\* start_of_week_timestamp(timestamp), as _get_dataframe_week_ranges applies
\* it to the timestamps of a dataframe
StartOfWeekTimestamp ==
    /\ result' = <<start_of_week_timestamp(lastArg)>>
    /\ lastOp' = "start_of_week_timestamp"
    /\ raised' = "none"
    /\ UNCHANGED <<queue, counter, added, sinceFlush, callbackVars, everReset,
                   dataframe, reload, archive, otherOps, flushedAt, lastArg, lastEnd,
                   lastTable, peer, threads>>

\* the name _save_dataframe_by_week gives the shard of the timestamp's week,
\* and _name_to_timestamp of that name
NameToTimestamp ==
    /\ LET isoformat == isocalendar(start_of_week_timestamp(lastArg))
           name == archive_name_for_week(isoformat[1], isoformat[2])
       IN  result' = <<name, name_to_timestamp(name)>>
    /\ lastOp' = "name_to_timestamp"
    /\ raised' = "none"
    /\ UNCHANGED <<queue, counter, added, sinceFlush, callbackVars, everReset,
                   dataframe, reload, archive, otherOps, flushedAt, lastArg, lastEnd,
                   lastTable, peer, threads>>

NextDays ==
    \/ StartOfWeekTimestamp
    \/ NameToTimestamp

SpecDays == InitDays /\ [][NextDays]_vars

(***************************************************************************)
(* The recursion of _load_recursively, for bounds around the turn of       *)
(* several years.                                                          *)
(***************************************************************************)
\* the years the bounds are taken from: 2020 has 53 ISO weeks
RecursionYears == 2019..2025

\* the first days of a year (in the last ISO week of the year before, or in
\* week 1), January 4, a day in the middle, December 28 and the last day
RecursionDates ==
    UNION { { Timestamp(year, 1, 1), Timestamp(year, 1, 3), Timestamp(year, 1, 4),
              Timestamp(year, 6, 15), Timestamp(year, 12, 28),
              Timestamp(year, 12, 31) } : year \in RecursionYears }

\* a start and an end are chosen; nothing else has happened
InitRecursion ==
    /\ InitQueue
    /\ archive = <<>>
    /\ dataframe = <<>>
    /\ reload = FALSE
    /\ otherOps = 0
    /\ flushedAt = 0
    /\ lastArg \in RecursionDates
    /\ lastEnd \in RecursionDates
    /\ lastTable = <<>>
    /\ peer = "none"
    /\ threads = NoThreads

\* _load_recursively(start, end) on the chosen bounds: the invocations it
\* nests are recorded
LoadRecursively ==
    /\ result' = load_recursively_calls(lastArg, lastEnd, MaxDepth)
    /\ lastTable' = load_recursively(archive, lastArg, lastEnd)
    /\ lastOp' = "load_recursively"
    /\ raised' = "none"
    /\ UNCHANGED <<queue, counter, added, sinceFlush, callbackVars, everReset,
                   dataframe, reload, archive, otherOps, flushedAt, lastArg, lastEnd,
                   peer, threads>>

NextRecursion == LoadRecursively

SpecRecursion == InitRecursion /\ [][NextRecursion]_vars

(***************************************************************************)
(* The data store fed with readings that are not all schema-valid: a       *)
(* SensorReading is checked on construction for the vocabulary of its      *)
(* sensor, sensor_type and unit only.                                      *)
(***************************************************************************)
\* readings of 2024-W02 as add_reading can be given them: two valid ones, one
\* whose reading is NaN, and one whose (sensor_type, sensor) pair is not in
\* SENSOR_COMBINATIONS
BatchReadings ==
    { SensorReading("temperature", "DHT11", Timestamp(2024, 1, 8)),
      SensorReading("temperature", "DHT11", Timestamp(2024, 1, 9)),
      [SensorReading("temperature", "PI_CPU", Timestamp(2024, 1, 9))
          EXCEPT !.reading = NaN],
      SensorReading("humidity", "PI_CPU", Timestamp(2024, 1, 9)) }

NextBatch ==
    \/ \E reading \in BatchReadings : AddReading(reading)
    \/ CurrentView

SpecBatch == Init /\ [][NextBatch]_vars

(***************************************************************************)
(* The data store fed with readings as the ingest handler accepts them: the *)
(* timestamp of a SensorReading is a string that nothing checks.           *)
(***************************************************************************)
\* two valid readings of 2024-W02, one whose reading is NaN, and one whose
\* timestamp is not a date
IngestReadings ==
    { SensorReading("temperature", "DHT11", Timestamp(2024, 1, 8)),
      SensorReading("temperature", "DHT11", Timestamp(2024, 1, 9)),
      [SensorReading("temperature", "PI_CPU", Timestamp(2024, 1, 9))
          EXCEPT !.reading = NaN],
      SensorReading("temperature", "DS18B20", NotADate) }

NextIngest ==
    \/ \E reading \in IngestReadings : AddReading(reading)
    \/ CurrentView
    \/ ArchiveData

SpecIngest == Init /\ [][NextIngest]_vars

(***************************************************************************)
(* A local data store fed with schema-valid readings: ingest, reads of the *)
(* dataframe property, flushes, and looks at the unsynced slice.           *)
(***************************************************************************)
NextLocal ==
    \/ \E reading \in Readings : AddReading(reading)
    \/ CurrentView
    \/ ArchiveData
    \/ QueueGetUnsyncedQueue

SpecLocal == Init /\ [][NextLocal]_vars

(***************************************************************************)
(* The data store configured with a proxy: the hot cache is loaded from a  *)
(* remote peer, whose fetch can fail.                                      *)
(***************************************************************************)
\* what a request to the peer can come to: a transport error, a response
\* with a status other than 200, or a 200 response carrying a table
FetchOutcomes ==
    { [kind |-> "TransportError", payload |-> <<>>],
      [kind |-> "status", payload |-> <<>>],
      [kind |-> "ok", payload |-> <<>>],
      [kind |-> "ok",
       payload |-> <<SensorReading("temperature", "DHT11", Timestamp(2024, 1, 1))>>] }

\* DataStore.__init__ with a proxy: the constructor returns once its fetch of
\* the archive has succeeded
InitProxy ==
    /\ InitQueue
    /\ archive = <<>>
    /\ \E outcome \in FetchOutcomes :
           /\ download_archive_from_proxy(outcome).raised = "none"
           /\ dataframe = download_archive_from_proxy(outcome).df
    /\ reload = FALSE
    /\ otherOps = 0
    /\ flushedAt = 0
    /\ lastArg = None
    /\ lastEnd = None
    /\ lastTable = <<>>
    /\ peer = "none"
    /\ threads = NoThreads

\* a read of DataStore.dataframe of a store with a proxy
ProxyCurrentView(outcome) ==
    LET view == proxy_dataframe_property(dataframe, reload, queue, counter, outcome)
    IN  /\ Len(dataframe) <= MaxRows
        /\ dataframe' = view.dataframe
        /\ reload' = IF view.reloaded THEN FALSE ELSE reload
        /\ counter' = view.counter
        /\ sinceFlush' = IF view.raised = "none" THEN <<>> ELSE sinceFlush
        /\ everReset' = (everReset \/ view.raised = "none")
        /\ result' = IF view.raised = "none" THEN view.dataframe ELSE <<>>
        /\ raised' = view.raised
        /\ peer' = view.fetch
        /\ threads' = threads
        /\ lastOp' = "dataframe"
        /\ otherOps' = Min(otherOps + 1, 2)
        /\ UNCHANGED <<queue, archive, added, callbackVars, flushedAt, lastArg,
                       lastEnd, lastTable>>

\* DataStore.archive_data of a store with a proxy: the dataframe is saved
\* through the store's ParquetManager
ProxyArchiveData(outcome) ==
    LET view == proxy_dataframe_property(dataframe, reload, queue, counter, outcome)
    IN  /\ Len(dataframe) <= MaxRows
        /\ dataframe' = view.dataframe
        /\ counter' = view.counter
        /\ sinceFlush' = IF view.raised = "none" THEN <<>> ELSE sinceFlush
        /\ everReset' = (everReset \/ view.raised = "none")
        /\ IF view.raised = "none"
           THEN /\ archive' = save_dataframe(archive, view.dataframe)
                /\ reload' = TRUE
                /\ flushedAt' = Len(added)
           ELSE /\ reload' = IF view.reloaded THEN FALSE ELSE reload
                /\ UNCHANGED <<archive, flushedAt>>
        /\ raised' = view.raised
        /\ peer' = view.fetch
        /\ threads' = threads
        /\ result' = <<>>
        /\ lastOp' = "archive_data"
        /\ otherOps' = Min(otherOps + 1, 2)
        /\ UNCHANGED <<queue, added, callbackVars, lastArg, lastEnd, lastTable>>

\* the readings fed to a store with a proxy: those of the current week
ProxyReadings == { r \in Readings : r.timestamp >= Timestamp(2024, 1, 8) }

NextProxy ==
    \/ \E reading \in ProxyReadings : AddReading(reading)
    \/ \E outcome \in FetchOutcomes : ProxyCurrentView(outcome)
    \/ \E outcome \in FetchOutcomes : ProxyArchiveData(outcome)

SpecProxy == InitProxy /\ [][NextProxy]_vars

(***************************************************************************)
(* The range endpoint of the server on a data store that ingests and       *)
(* flushes (server.py, /archive/parquet/ and /archive/json/).              *)
(***************************************************************************)
\* the start and end parameters of the requests: absent, or a timestamp of
\* an earlier week or of the current one
RequestTimestamps == { None, Timestamp(2024, 1, 1), Timestamp(2024, 1, 9) }

NextServer ==
    \/ \E reading \in ProxyReadings : AddReading(reading)
    \/ ArchiveData
    \/ \E start, end \in RequestTimestamps : GetSerializedArchive(start, end)

SpecServer == Init /\ [][NextServer]_vars

(***************************************************************************)
(* The queries of a store that was never given a reading: an empty buffer, *)
(* an empty hot cache and a backend without shards.                        *)
(***************************************************************************)
NextEmpty ==
    \/ CurrentView
    \/ \E timestamp \in QueryTimestamps : GetArchiveSince(timestamp)
    \/ \E start, end \in QueryTimestamps : QueueGetDataInInterval(start, end)
    \/ \E start, end \in QueryTimestamps : GetHistoricData(start, end)

SpecEmpty == Init /\ [][NextEmpty]_vars

(***************************************************************************)
(* A read of the hot cache and the timer's archive_data on two threads.    *)
(* send_full_archive_parquet and archive_task are plain functions, which   *)
(* the server runs on worker threads; DataStore takes no lock.  A thread   *)
(* runs one statement of DataStore.dataframe, or one iteration of the loop *)
(* of save_dataframe, at a time.                                           *)
(***************************************************************************)
Threads == {"reader", "flusher"}

\* the readings of a store that serves concurrent requests: last week's and
\* this week's
ConcurrentReadings ==
    { r \in Readings : r.timestamp \in {Timestamp(2024, 1, 1), Timestamp(2024, 1, 8)} }

Quiescent == \A t \in Threads : threads.pc[t] = "idle"

MoveTo(t, pc) == [threads EXCEPT !.pc[t] = pc]

\* what archive_data followed by a read of the hot cache returns when each
\* runs on its own
read_after_flush(df, rl, q, c, arch) ==
    LET flushed == dataframe_property(df, rl, q, c, arch)
    IN  dataframe_property(flushed.dataframe, TRUE, q, flushed.counter,
                           save_dataframe(arch, flushed.dataframe)).dataframe

\* a request for the hot cache arrives as the timer fires
StartConcurrent ==
    LET view == dataframe_property(dataframe, reload, queue, counter, archive)
    IN  /\ Quiescent
        /\ view.raised = "none"
        /\ Len(dataframe) <= MaxRows
        /\ threads' = [pc |-> [reader |-> "if", flusher |-> "if"],
                       table |-> <<>>, weeks |-> <<>>,
                       before |-> view.dataframe,
                       after |-> read_after_flush(dataframe, reload, queue,
                                                  counter, archive),
                       slicedAt |-> threads.slicedAt, missed |-> threads.missed]
        /\ lastOp' = "start"
        /\ raised' = "none"
        /\ result' = <<>>
        /\ UNCHANGED <<queue, counter, dataframe, reload, archive, added, sinceFlush,
                       callbackVars, everReset, otherOps, flushedAt, lastArg, lastEnd,
                       lastTable, peer>>

\* if self._reload_dataframe or self._dataframe.size == 0:
EvalCondition(t) ==
    /\ threads.pc[t] = "if"
    /\ threads' = MoveTo(t, IF reload \/ Len(dataframe) = 0 THEN "load" ELSE "merge")
    /\ UNCHANGED <<queue, counter, dataframe, reload, archive, added, sinceFlush,
                   callbackVars, everReset, otherOps, flushedAt, lastArg, lastEnd,
                   lastTable, peer, lastOp, result, raised>>

\* self._dataframe = self._load_archive()
LoadArchive(t) ==
    /\ threads.pc[t] = "load"
    /\ dataframe' = load_archive(archive)
    /\ threads' = MoveTo(t, "unflag")
    /\ UNCHANGED <<queue, counter, reload, archive, added, sinceFlush,
                   callbackVars, everReset, otherOps, flushedAt, lastArg, lastEnd,
                   lastTable, peer, lastOp, result, raised>>

\* self._reload_dataframe = False
ClearFlag(t) ==
    /\ threads.pc[t] = "unflag"
    /\ reload' = FALSE
    /\ threads' = MoveTo(t, "merge")
    /\ UNCHANGED <<queue, counter, dataframe, archive, added, sinceFlush,
                   callbackVars, everReset, otherOps, flushedAt, lastArg, lastEnd,
                   lastTable, peer, lastOp, result, raised>>

\* self._dataframe = self._merge_queue_with_dataframe(
\*     self._dataframe, self._queue.get_unsynced_queue())
\* slicedAt notes how many add_reading calls the slice could see
MergeQueue(t) ==
    /\ threads.pc[t] = "merge"
    /\ ~unsynced_raises(queue, counter)
    /\ dataframe' = merge_queue_with_dataframe(
                        dataframe, get_unsynced_queue(queue, counter))
    /\ threads' = [MoveTo(t, "clear") EXCEPT !.slicedAt = Len(added)]
    /\ UNCHANGED <<queue, counter, reload, archive, added, sinceFlush,
                   callbackVars, everReset, otherOps, flushedAt, lastArg, lastEnd,
                   lastTable, peer, lastOp, result, raised>>

\* self._clear_pending_queue(); missed collects the add_reading calls made
\* since the slice was taken, by their place in the history of the adds
ClearPendingQueue(t) ==
    /\ threads.pc[t] = "clear"
    /\ counter' = reset_counter(queue, counter)
    /\ sinceFlush' = <<>>
    /\ everReset' = TRUE
    /\ threads' = [MoveTo(t, "return") EXCEPT
                       !.missed = @ \cup ((threads.slicedAt + 1)..Len(added))]
    /\ UNCHANGED <<queue, dataframe, reload, archive, added, callbackVars, otherOps,
                   flushedAt, lastArg, lastEnd, lastTable, peer, lastOp, result,
                   raised>>

\* return self._dataframe, to the request
ReaderReturn ==
    /\ threads.pc["reader"] = "return"
    /\ result' = dataframe
    /\ raised' = "none"
    /\ lastOp' = "concurrent_dataframe"
    /\ otherOps' = Min(otherOps + 1, 2)
    /\ threads' = MoveTo("reader", "idle")
    /\ UNCHANGED <<queue, counter, dataframe, reload, archive, added, sinceFlush,
                   callbackVars, everReset, flushedAt, lastArg, lastEnd, lastTable,
                   peer>>

\* return self._dataframe, to archive_data, which passes it to save_dataframe
FlusherReturn ==
    /\ threads.pc["flusher"] = "return"
    /\ threads' = [threads EXCEPT !.pc["flusher"] = "save",
                                  !.table = dataframe,
                                  !.weeks = get_dataframe_week_ranges(dataframe)]
    /\ UNCHANGED <<queue, counter, dataframe, reload, archive, added, sinceFlush,
                   callbackVars, everReset, otherOps, flushedAt, lastArg, lastEnd,
                   lastTable, peer, lastOp, result, raised>>

\* one iteration of the loop of save_dataframe
SaveWeek ==
    /\ threads.pc["flusher"] = "save"
    /\ threads.weeks # <<>>
    /\ LET week == Head(threads.weeks)
       IN  archive' = save_dataframe_by_week(
                          archive, loc_timestamp(threads.table, week, week + 7), week)
    /\ threads' = [threads EXCEPT !.weeks = Tail(threads.weeks)]
    /\ UNCHANGED <<queue, counter, dataframe, reload, added, sinceFlush,
                   callbackVars, everReset, otherOps, flushedAt, lastArg, lastEnd,
                   lastTable, peer, lastOp, result, raised>>

\* self._reload_dataframe = True, and archive_data returns
SetFlag ==
    /\ threads.pc["flusher"] = "save"
    /\ threads.weeks = <<>>
    /\ reload' = TRUE
    /\ flushedAt' = Len(added)
    /\ otherOps' = Min(otherOps + 1, 2)
    /\ threads' = MoveTo("flusher", "idle")
    /\ UNCHANGED <<queue, counter, dataframe, archive, added, sinceFlush,
                   callbackVars, everReset, lastArg, lastEnd, lastTable, peer,
                   lastOp, result, raised>>

\* add_reading between the requests
QuiescentAddReading(reading) == Quiescent /\ AddReading(reading)

NextConcurrent ==
    \/ \E reading \in ConcurrentReadings : QuiescentAddReading(reading)
    \/ StartConcurrent
    \/ \E t \in Threads : EvalCondition(t)
    \/ \E t \in Threads : LoadArchive(t)
    \/ \E t \in Threads : ClearFlag(t)
    \/ \E t \in Threads : MergeQueue(t)
    \/ \E t \in Threads : ClearPendingQueue(t)
    \/ ReaderReturn
    \/ FlusherReturn
    \/ SaveWeek
    \/ SetFlag

SpecConcurrent == Init /\ [][NextConcurrent]_vars

(***************************************************************************)
(* A read of the hot cache on a worker thread while the ingest handler     *)
(* runs on the event loop: add_reading is an async function, which the     *)
(* server runs on the loop's thread, and may run between any two           *)
(* statements of DataStore.dataframe.                                      *)
(***************************************************************************)
\* a request for the hot cache arrives
StartView ==
    /\ threads.pc["reader"] = "idle"
    /\ Len(dataframe) <= MaxRows
    /\ threads' = MoveTo("reader", "if")
    /\ lastOp' = "start"
    /\ raised' = "none"
    /\ result' = <<>>
    /\ UNCHANGED <<queue, counter, dataframe, reload, archive, added, sinceFlush,
                   callbackVars, everReset, otherOps, flushedAt, lastArg, lastEnd,
                   lastTable, peer>>

\* self._queue.get_unsynced_queue() raises out of the property, and the
\* request ends with the error
MergeRaises ==
    /\ threads.pc["reader"] = "merge"
    /\ unsynced_raises(queue, counter)
    /\ threads' = MoveTo("reader", "idle")
    /\ lastOp' = "concurrent_dataframe"
    /\ raised' = "ValueError"
    /\ result' = <<>>
    /\ otherOps' = Min(otherOps + 1, 2)
    /\ UNCHANGED <<queue, counter, dataframe, reload, archive, added, sinceFlush,
                   callbackVars, everReset, flushedAt, lastArg, lastEnd, lastTable,
                   peer>>

NextInterleaved ==
    \/ \E reading \in Readings : AddReading(reading)
    \/ StartView
    \/ EvalCondition("reader")
    \/ LoadArchive("reader")
    \/ ClearFlag("reader")
    \/ MergeQueue("reader")
    \/ MergeRaises
    \/ ClearPendingQueue("reader")
    \/ ReaderReturn

SpecInterleaved == Init /\ [][NextInterleaved]_vars

(***************************************************************************)
(* The data store: ingest, reads, flushes and range queries in any order.  *)
(***************************************************************************)
Next ==
    \/ \E reading \in Readings : AddReading(reading)
    \/ CurrentView
    \/ ArchiveData
    \/ \E timestamp \in Timestamps : GetArchiveSince(timestamp)

Spec == Init /\ [][Next]_vars

(***************************************************************************)
(* Properties of the data store, checked under Spec.                       *)
(***************************************************************************)
NoDuplicateKeys(df) ==
    \A i, j \in DOMAIN df : KeyOf(df[i]) = KeyOf(df[j]) => i = j

SortedByTimestamp(df) ==
    \A i, j \in DOMAIN df : i < j => df[i].timestamp <= df[j].timestamp

InArchive(row) == \E name \in DOMAIN archive : row \in Range(archive[name])

\* the readings added since archive_data last returned
AddedSinceFlush == SubSeq(added, flushedAt + 1, Len(added))

\* C1: after any sequence of add_reading, dataframe reads and archive_data
\* calls with non-decreasing timestamps, the range query from a start
\* timestamp (get_archive_since, whose range is open at the end) returns
\* exactly the ever-added readings at or after the start, sorted ascending by
\* timestamp and with no duplicate key.
C1_RangeCorrect ==
    lastOp = "get_archive_since" =>
        /\ raised = "none"
        /\ Range(result) = { r \in Range(added) : lastArg <= r.timestamp }
        /\ SortedByTimestamp(result)
        /\ NoDuplicateKeys(result)

\* C2: after add_reading calls only (any number, with non-decreasing
\* timestamps, nothing flushed), get_archive_since of the earliest added
\* timestamp returns exactly the set of added readings.
C2_AddedDataRecalled ==
    (/\ lastOp = "get_archive_since"
     /\ otherOps = 1
     /\ added # <<>>) =>
        (lastArg = added[1].timestamp =>
            /\ raised = "none"
            /\ Range(result) = Range(added))

\* C3: when archive_data returns, every reading passed to add_reading before
\* it is present in the archive.
C3_FlushDurable ==
    (lastOp = "archive_data" /\ raised = "none") =>
        \A r \in Range(added) : InArchive(r)

\* C4: the first read of the dataframe after archive_data has marked it for
\* reload returns a table that contains every reading added since that flush.
C4_ReadAfterFlush ==
    [][(reload /\ lastOp' = "dataframe") =>
           /\ raised' = "none"
           /\ Range(AddedSinceFlush') \subseteq Range(result')]_vars

\* C5: the table a read of the dataframe returns never has two rows with the
\* same key (sensor_type, sensor, timestamp).  Stated for the histories in
\* which no key was added twice, where it asks least of the merge.
C5_NoDuplicateKeys ==
    (lastOp = "dataframe" /\ raised = "none" /\ NoDuplicateKeys(added)) =>
        NoDuplicateKeys(result)

(***************************************************************************)
(* Properties of the write buffer, checked under SpecQueue.                *)
(***************************************************************************)
\* C6: with no reset_counter call, after k adds the callback has fired exactly
\* k div maxlen times (once at each of the adds maxlen, 2*maxlen, ...) and the
\* counter holds the k mod maxlen adds made since, so it is 0 right after a
\* firing.
C6_FlushTrigger ==
    ~everReset =>
        /\ fired = Len(added) \div MaxLen
        /\ counter = Len(added) % MaxLen

\* two full cycles without a reset: the callback has fired at adds maxlen and 2*maxlen
C6_Witness ==
    /\ ~everReset
    /\ Len(added) = 2 * MaxLen
    /\ fired = 2
    /\ counter = 0

\* C7: whenever the callback has been invoked, in any interleaving of
\* add_reading and reset_counter, the batch it was given is exactly the
\* readings added since the previous callback or reset, in insertion order.
C7_CallbackBatch == fired > 0 => lastBatch = expectBatch

\* the callback fires for the first time after a reset below capacity, on an
\* add that evicts an already-synced reading
C7_Witness ==
    /\ fired = 1
    /\ everReset
    /\ Len(added) > MaxLen
    /\ lastOp = "add_reading"
    /\ sinceFlush = <<>>
    /\ Len(lastBatch) = MaxLen

\* C8: in every reachable state of the buffer get_unsynced_queue() returns
\* exactly the readings added since the last callback or reset_counter, in
\* insertion order.
C8_UnsyncedIsSuffix ==
    IF unsynced_raises(queue, counter) THEN FALSE
    ELSE get_unsynced_queue(queue, counter) = sinceFlush

\* C9: after reset_counter in any buffer state the next cycle still triggers:
\* maxlen readings never accumulate after a reset without the callback firing.
C9_FullCycleAfterReset == everReset => Len(sinceFlush) < MaxLen

\* C10: the buffer never holds more than maxlen readings, and after k adds it
\* holds exactly the most recent min(k, maxlen) of them in insertion order.
C10_RingBuffer ==
    /\ Len(queue) <= MaxLen
    /\ queue = LastN(added, Min(Len(added), MaxLen))

\* an add at capacity has evicted the oldest entry
C10_Witness ==
    /\ Len(added) > MaxLen
    /\ Len(queue) = MaxLen
    /\ queue[1] # added[1]

(***************************************************************************)
(* Properties of interval queries on the write buffer, checked under       *)
(* SpecInterval.                                                           *)
(***************************************************************************)
\* the held readings a query bounded by lo and hi selects when both bounds
\* are included and a missing bound leaves its side open
HeldInClosedInterval(lo, hi) ==
    { r \in Range(queue) :
        /\ (lo = None \/ lo <= r.timestamp)
        /\ (hi = None \/ r.timestamp <= hi) }

\* C11 as stated: for a buffer of non-decreasing timestamps
\* get_data_in_interval(start, end) returns exactly the held readings with
\* start <= timestamp < end, a missing bound leaving its side open.
C11_HalfOpenInterval ==
    lastOp = "get_data_in_interval" =>
        Range(result) =
            { r \in Range(queue) :
                /\ (lastArg = None \/ lastArg <= r.timestamp)
                /\ (lastEnd = None \/ r.timestamp < lastEnd) }

\* C11 as amended: get_data_in_interval(start, end) returns exactly the held
\* readings with start <= timestamp <= end: a reading stamped start and a
\* reading stamped end are both included, and a missing start or end leaves
\* that side unbounded.
C11_ClosedInterval ==
    lastOp = "get_data_in_interval" =>
        Range(result) = HeldInClosedInterval(lastArg, lastEnd)

\* a query whose end is the timestamp of a held reading has returned it
C11_Witness ==
    /\ lastOp = "get_data_in_interval"
    /\ lastArg # None
    /\ lastEnd # None
    /\ lastArg < lastEnd
    /\ \E i \in DOMAIN result : result[i].timestamp = lastEnd
    /\ \E i \in DOMAIN result : result[i].timestamp = lastArg
    /\ \E r \in Range(queue) : r.timestamp < lastArg

\* C12: for a buffer filled with sorted readings and start <= end both
\* timestamps of held readings, the sorted result of
\* get_data_in_interval(start, end) is the label slice start..end, closed at
\* both ends, of the sorted table made of the held readings.
C12_EqualsLabelSlice ==
    (/\ lastOp = "get_data_in_interval"
     /\ lastArg # None
     /\ lastEnd # None
     /\ lastArg <= lastEnd
     /\ \E r \in Range(queue) : r.timestamp = lastArg
     /\ \E r \in Range(queue) : r.timestamp = lastEnd) =>
        sort_index(result) =
            loc_timestamp(
                sort_index(make_dataframe_from_list_of_readings(queue)),
                lastArg, lastEnd)

\* a full buffer that has evicted readings is asked for an interval that
\* starts and ends at held timestamps and leaves held readings out
C12_Witness ==
    /\ lastOp = "get_data_in_interval"
    /\ Len(added) > MaxLen
    /\ lastArg # None
    /\ lastEnd # None
    /\ lastArg <= lastEnd
    /\ \E r \in Range(queue) : r.timestamp = lastArg
    /\ \E r \in Range(queue) : r.timestamp = lastEnd
    /\ Len(result) >= 2
    /\ Len(result) < Len(queue)

(***************************************************************************)
(* Properties of the sharded archive, checked under SpecArchive.           *)
(***************************************************************************)
\* every row stored in some shard of an archive
ArchiveRows(arch) == UNION { Range(arch[name]) : name \in DOMAIN arch }

IsSave(op) == op \in {"save_dataframe", "save_dataframe_again"}

\* C13: after any sequence of save_dataframe calls every row stored in the
\* shard of ISO week (y, w) has its timestamp in the half-open interval
\* [start_of_week(y, w), start_of_week(y, w) + 7 days), so a row stamped at a
\* Monday 00:00 is stored only in the week that starts there.
C13_ShardHalfOpen ==
    \A name \in DOMAIN archive :
        \A row \in Range(archive[name]) :
            /\ name_to_timestamp(name) <= row.timestamp
            /\ row.timestamp < name_to_timestamp(name) + 7

\* C14: save_dataframe merges on write: every row the archive held before
\* the call is still in the archive after it, and every row of the saved
\* table is in the archive.
C14_MergeOnWrite ==
    [][IsSave(lastOp') =>
           /\ ArchiveRows(archive) \subseteq ArchiveRows(archive')
           /\ \A name \in DOMAIN archive :
                  /\ name \in DOMAIN archive'
                  /\ Range(archive[name]) \subseteq Range(archive'[name])
           /\ Range(lastTable') \subseteq ArchiveRows(archive')]_vars

\* a save has written into a shard that already held a row the saved table
\* does not have
C14_Witness ==
    /\ IsSave(lastOp)
    /\ \E name \in DOMAIN archive :
           /\ \E row \in Range(archive[name]) : row \notin Range(lastTable)
           /\ \E row \in Range(archive[name]) : row \in Range(lastTable)

C16_HistoricCoversOverlap ==
    (/\ lastOp = "get_historic_data"
     /\ lastArg # None
     /\ lastEnd # None
     /\ lastArg <= lastEnd) =>
        \A name \in DOMAIN archive :
            (/\ name_to_timestamp(name) <= lastEnd
             /\ lastArg < name_to_timestamp(name) + 7) =>
                Range(archive[name]) \subseteq Range(result)

(***************************************************************************)
(* The hot cache as a state machine, checked under Spec: the cache is      *)
(* Stale when _reload_dataframe is set and Fresh when it is clear.         *)
(***************************************************************************)
\* the transitions of the hot cache: a read of the dataframe property leaves
\* it Fresh, a completed archive_data leaves it Stale, it turns Fresh only in
\* an operation that evaluates the dataframe property and Stale only in
\* archive_data
HotCacheTransitions ==
    /\ lastOp' = "dataframe" => ~reload'
    /\ (lastOp' = "archive_data" /\ raised' = "none") => reload'
    /\ (reload /\ ~reload') =>
           lastOp' \in {"dataframe", "archive_data", "get_archive_since"}
    /\ (~reload /\ reload') => lastOp' = "archive_data"

\* C17 as stated: the hot cache is Stale once the store is constructed and
\* until the first read, turns Fresh only on a reload and Stale only on
\* archive_data.
C17_StaleInitially ==
    [][(lastOp = "init" => reload) /\ HotCacheTransitions]_vars

\* C17 as amended: the hot cache is Fresh once the store is constructed (the
\* constructor has loaded the archive and cleared the flag), turns Stale only
\* on archive_data and Fresh again only in an evaluation of the dataframe
\* property, which reloads the archive.
C17_FreshInitially ==
    [][(lastOp = "init" => ~reload) /\ HotCacheTransitions]_vars

\* a read after a flush of added readings has found the cache Stale and left
\* it Fresh
C17_Witness ==
    /\ lastOp = "dataframe"
    /\ raised = "none"
    /\ flushedAt > 0
    /\ ~reload

(***************************************************************************)
(* Batch validation, checked under SpecBatch.                              *)
(***************************************************************************)
\* a reading the schema calls invalid: a value outside its vocabulary, a
\* (sensor_type, sensor) pair outside the whitelist, a unit that is not the
\* one of its sensor_type, or a reading that is not a number
SchemaInvalid(r) ==
    \/ r.sensor_type \notin Range(SensorTypeValues)
    \/ r.sensor \notin Range(SensorValues)
    \/ r.unit \notin Range(UnitValues)
    \/ <<r.sensor_type, r.sensor>> \notin SENSOR_COMBINATIONS
    \/ r.unit # gen_unit(r.sensor_type)
    \/ r.reading = NaN

\* C18: when the batch folded from the buffer, by a read of the dataframe
\* property or by the buffer-full callback, holds a schema-invalid reading,
\* the hot cache keeps exactly the rows it had before the merge and the
\* operation ends without an error.
C18_InvalidBatchDiscarded ==
    [][/\ (/\ lastOp' = "dataframe"
            /\ ~unsynced_raises(queue, counter)
            /\ \E r \in Range(get_unsynced_queue(queue, counter)) :
                   SchemaInvalid(r)) =>
               (raised' = "none" /\ dataframe' = dataframe)
       /\ (/\ lastOp' = "add_reading"
            /\ fired' = fired + 1
            /\ \E r \in Range(lastBatch') : SchemaInvalid(r)) =>
               (raised' = "none" /\ dataframe' = dataframe)]_vars

C20_ReversedRangeRejected ==
    [][(/\ lastOp' = "get_serialized_archive"
        /\ lastArg' # None /\ lastEnd' # None /\ lastEnd' < lastArg') =>
           /\ raised' = "HTTPException"
           /\ result' = <<>>
           /\ UNCHANGED <<queue, counter, dataframe, reload, archive>>]_vars

\* a reversed range was rejected while the store had unsynced readings and a
\* reload pending, so that reading the store would have merged
C20_Witness ==
    /\ lastOp = "get_serialized_archive"
    /\ lastArg # None /\ lastEnd # None /\ lastEnd < lastArg
    /\ raised = "HTTPException"
    /\ reload /\ counter > 0 /\ DOMAIN archive # {}

(***************************************************************************)
(* Archive_data against a concurrent read, checked under SpecConcurrent.   *)
(***************************************************************************)
\* C21: a read of the hot cache that runs concurrently with archive_data
\* returns the rows it would return entirely before archive_data or the
\* rows it would return entirely after it.
C21_FlushAtomicToReaders ==
    lastOp = "concurrent_dataframe" =>
        \/ Range(result) = Range(threads.before)
        \/ Range(result) = Range(threads.after)

(***************************************************************************)
(* The empty store, checked under SpecEmpty.                               *)
(***************************************************************************)
\* C22: on a store with an empty buffer and an archive without shards every
\* query (the hot cache, the range query with or without a start, the buffer
\* query, the historic query) returns a zero-row table and never raises.
C22_EmptyStoreQueries ==
    (queue = <<>> /\ DOMAIN archive = {}) => (raised = "none" /\ result = <<>>)

(***************************************************************************)
(* Absent and unreadable shards, checked under SpecShards.                 *)
(***************************************************************************)
\* the rows of the readable shards whose week overlaps [lo, hi]
PresentShardRows(lo, hi) ==
    UNION { Range(archive[n]) :
            n \in { m \in DOMAIN archive :
                        /\ archive[m] # CorruptFile
                        /\ name_to_timestamp(m) <= hi
                        /\ lo < name_to_timestamp(m) + 7 } }

\* C23: a shard that is absent or cannot be read is an empty shard: the
\* historic query does not raise, and for start <= end it returns exactly
\* the rows of the readable shards whose week overlaps [start, end].
C23_AbsentShardIsEmpty ==
    (/\ lastOp = "get_historic_data"
     /\ lastArg # None /\ lastEnd # None /\ lastArg <= lastEnd) =>
        /\ raised = "none"
        /\ Range(result) = PresentShardRows(lastArg, lastEnd)

(***************************************************************************)
(* Week arithmetic, checked under SpecWeeks.                               *)
(***************************************************************************)
\* C24: weeks tile the year: when w and w + 1 are both ISO weeks of a year,
\* start_of_week(year, w + 1) is start_of_week(year, w) plus 7 days, and
\* end_of_week(year, w) is start_of_week(year, w) plus 7 days;
\* start_of_week(2023, 1) is 2023-01-02 and end_of_week(2023, 1) 2023-01-09.
C24_WeekTiling ==
    /\ (lastOp = "start_of_week" /\ lastEnd + 1 <= WeeksInYear(lastArg)) =>
            start_of_week(lastArg, lastEnd + 1) = result[1] + 7
    /\ (lastOp = "end_of_week" /\ lastEnd <= WeeksInYear(lastArg)) =>
            /\ result[1] = start_of_week(lastArg, lastEnd) + 7
            /\ lastEnd + 1 <= WeeksInYear(lastArg) =>
                    result[1] = start_of_week(lastArg, lastEnd + 1)
    /\ (lastOp = "start_of_week" /\ lastArg = 2023 /\ lastEnd = 1) =>
            result[1] = Timestamp(2023, 1, 2)
    /\ (lastOp = "end_of_week" /\ lastArg = 2023 /\ lastEnd = 1) =>
            result[1] = Timestamp(2023, 1, 9)

\* end_of_week was applied to the last week of a year of 53 weeks, and to
\* no later one
C24_Witness ==
    /\ lastOp = "end_of_week"
    /\ lastEnd = 52 /\ WeeksInYear(lastArg) = 53
    /\ result = <<start_of_week(lastArg, 53)>>

\* C25: for every year start_of_week(year, 1) is a Monday on or before
\* January 4 of the year and at most 6 days before it, so that January 4 is
\* in week 1.
C25_WeekOneHoldsJanFourth ==
    (lastOp = "start_of_week" /\ lastEnd = 1) =>
        LET jan_fourth == Timestamp(lastArg, 1, 4)
        IN  /\ weekday(result[1]) = 0
            /\ result[1] <= jan_fourth
            /\ jan_fourth - result[1] <= 6
            /\ isocalendar(jan_fourth) = <<lastArg, 1>>
            /\ isocalendar(result[1]) = <<lastArg, 1>>

\* week 1 of a year that starts in the December before it
C25_Witness ==
    /\ lastOp = "start_of_week" /\ lastEnd = 1
    /\ result[1] < Timestamp(lastArg, 1, 1)
    /\ Timestamp(lastArg, 1, 4) - result[1] = 6

(***************************************************************************)
(* Schema validity, checked under SpecSchema.                              *)
(***************************************************************************)
\* a value outside its vocabulary, or a pair outside the whitelist
OutsideSchema(r) ==
    \/ r.sensor_type \notin Range(SensorTypeValues)
    \/ r.sensor \notin Range(SensorValues)
    \/ r.unit \notin Range(UnitValues)
    \/ <<r.sensor_type, r.sensor>> \notin SENSOR_COMBINATIONS

\* C26: a reading is rejected when its sensor_type, sensor or unit is outside
\* its vocabulary or its (sensor_type, sensor) pair is not one of the four
\* whitelisted pairs, and every other reading is accepted.
C26_SchemaValidity ==
    lastOp \in {"SensorReading", "validate"} =>
        (raised # "none" <=> OutsideSchema(lastTable[1]))

(***************************************************************************)
(* Serialization round trips, checked under SpecFormat.                    *)
(***************************************************************************)
\* C27: for the Parquet and the JSON table format, and for tables of no rows
\* and of some, the table read back from its serialized form and repaired
\* has the rows of the table that was serialized and passes validation.
C27_RoundTrip ==
    lastOp \in {"parquet", "json"} => (result = lastTable /\ validate(result))

(***************************************************************************)
(* Historic queries, checked under SpecHistoric.                           *)
(***************************************************************************)
\* the scenario: shards 2023-W51, 2023-W52 and 2024-W01 are stored and the
\* query ran from the middle of 2023-W52 to the middle of 2024-W01
MidWeekScenario ==
    /\ lastOp = "get_historic_data"
    /\ lastArg = Timestamp(2023, 12, 28)
    /\ lastEnd = Timestamp(2024, 1, 4)
    /\ { archive_name_for_week(2023, 51), archive_name_for_week(2023, 52),
         archive_name_for_week(2024, 1) } \subseteq DOMAIN archive

C29_HistoricDefaults ==
    (/\ lastOp = "get_historic_data"
     /\ lastArg = None /\ lastEnd = None
     /\ DOMAIN archive # {}) =>
        /\ Range(result) = ArchiveRows(archive)
        /\ oldest_date(archive) =
               start_of_week(MinOf(DOMAIN archive) \div 100, MinOf(DOMAIN archive) % 100)
        /\ latest_date(archive) =
               end_of_week(Max(DOMAIN archive) \div 100, Max(DOMAIN archive) % 100)
        /\ DOMAIN archive \subseteq weeks_loaded(oldest_date(archive), latest_date(archive))

\* the archive spans 2020-W53 to 2024-W01, week 1 of its year, and all of
\* it was returned
C29_Witness ==
    /\ lastOp = "get_historic_data"
    /\ lastArg = None /\ lastEnd = None
    /\ archive_name_for_week(2020, 53) \in DOMAIN archive
    /\ Max(DOMAIN archive) = archive_name_for_week(2024, 1)
    /\ Cardinality(Range(result)) = 4

\* C30: get_historic_data(start, end) with start > end returns an empty
\* table, asks the backend for no shard and does not raise; so does a query
\* whose range lies after the newest stored shard.
C30_ReversedHistoricEmpty ==
    (lastOp = "get_historic_data" /\ lastArg # None) =>
        /\ (lastEnd # None /\ lastArg > lastEnd) =>
               /\ result = <<>>
               /\ raised = "none"
               /\ weeks_loaded(lastArg, lastEnd) = {}
        /\ (DOMAIN archive # {} /\ lastArg >= latest_date(archive)
               /\ (lastEnd = None \/ lastArg <= lastEnd)) =>
               /\ result = <<>>
               /\ raised = "none"

\* a query from a day of 2023-W52 back to the day before it, with the shard
\* of that week stored
C30_Witness ==
    /\ lastOp = "get_historic_data"
    /\ lastArg = Timestamp(2023, 12, 28)
    /\ lastEnd = Timestamp(2023, 12, 27)
    /\ archive_name_for_week(2023, 52) \in DOMAIN archive
    /\ result = <<>>

(***************************************************************************)
(* Termination of the historic recursion, checked under SpecRecursion.     *)
(***************************************************************************)
\* the ISO years of the invocations grow strictly from one to the next
StrictlyLaterYears(calls) ==
    \A i \in 1..(Len(calls) - 1) :
        isocalendar(calls[i])[1] < isocalendar(calls[i + 1])[1]

\* C31: _load_recursively(start, end) terminates for every start and end:
\* each nested invocation starts in a strictly later ISO year than the one
\* that made it, so for start <= end there are at most as many invocations
\* as ISO years from that of start to that of end, and for start > end the
\* first invocation returns at once.
C31_RecursionTerminates ==
    lastOp = "load_recursively" =>
        /\ Len(result) >= 1
        /\ Len(result) < MaxDepth
        /\ result[1] = lastArg
        /\ StrictlyLaterYears(result)
        /\ lastArg <= lastEnd =>
               Len(result) <= isocalendar(lastEnd)[1] - isocalendar(lastArg)[1] + 1
        /\ lastArg > lastEnd => Len(result) = 1

\* from the last day of 2019, in ISO year 2020, to January 3 of 2025: one
\* invocation for each of the six ISO years
C31_Witness ==
    /\ lastOp = "load_recursively"
    /\ lastArg = Timestamp(2019, 12, 31)
    /\ lastEnd = Timestamp(2025, 1, 3)
    /\ Len(result) = 6

(***************************************************************************)
(* Weeks at the turn of a year, checked under SpecWeeks.                   *)
(***************************************************************************)
\* C32: for every year with last ISO week L, the week of December 28 and
\* either 52 or 53, end_of_week(year, L) is start_of_week(year + 1, 1): the
\* last shard of a year ends where the first shard of the next year starts,
\* and end_of_week gets there by adding 7 days to start_of_week(year, L).
C32_WeeksTileAcrossYears ==
    (lastOp = "end_of_week" /\ lastEnd = WeeksInYear(lastArg)) =>
        /\ lastEnd \in {52, 53}
        /\ result[1] = start_of_week(lastArg + 1, 1)
        /\ result[1] = start_of_week(lastArg, lastEnd) + 7
        /\ isocalendar(result[1] - 1) = <<lastArg, lastEnd>>
        /\ isocalendar(result[1]) = <<lastArg + 1, 1>>

\* end_of_week was applied to week 53 of a year, and gave a week 1 that
\* starts in January
C32_Witness ==
    /\ lastOp = "end_of_week"
    /\ lastEnd = 53 /\ WeeksInYear(lastArg) = 53
    /\ result = <<Timestamp(lastArg + 1, 1, 4)>>

(***************************************************************************)
(* The frame of add_reading, checked under SpecIngest.                     *)
(***************************************************************************)
\* C33: add_reading validates nothing and changes the write buffer only, and
\* the hot cache when the call brings the unsynced count to MaxLen: it ends
\* without an error whatever the reading, and leaves the archive and the
\* reload flag of the hot cache as they were.
C33_AddReadingFrame ==
    [][lastOp' = "add_reading" =>
          /\ raised' = "none"
          /\ queue' = deque_append(queue, added'[Len(added')])
          /\ archive' = archive
          /\ reload' = reload
          /\ dataframe' # dataframe => counter + 1 = MaxLen]_vars

(***************************************************************************)
(* The unsynced counter, checked under SpecBuffer.                         *)
(***************************************************************************)
\* C34: in every reachable state of the write buffer the unsynced counter is
\* at least 0 and at most the number of readings held, which is at most
\* MaxLen.
C34_CounterWithinBuffer ==
    /\ 0 <= counter
    /\ counter <= Len(queue)
    /\ Len(queue) <= MaxLen

(***************************************************************************)
(* Reads of a local store, checked under SpecLocal.                        *)
(***************************************************************************)
\* C35: whatever add_reading, current_view and flush calls were made with
\* schema-valid readings, a read of the dataframe property and a call of
\* get_unsynced_queue end without an error: in every reachable state the
\* slice bounds computed from the counter are valid.
C35_ReadsNeverRaise ==
    /\ lastOp \in {"dataframe", "get_unsynced_queue"} => raised = "none"
    /\ ~unsynced_raises(queue, counter)

(***************************************************************************)
(* Shard names and week starts, checked under SpecDays.                    *)
(***************************************************************************)
\* C36: for every timestamp t with ISO year and week (y, w),
\* start_of_week(y, w) <= t < start_of_week(y, w) + 7 days and the ISO year
\* and week of start_of_week(y, w) are (y, w) again; so the name of the shard
\* of t, read back as a date and turned into a name again, is that name.
C36_ShardKeyAgreesWithWeekStart ==
    LET iso == isocalendar(lastArg)
    IN  /\ lastOp = "start_of_week_timestamp" =>
               /\ result[1] = start_of_week(iso[1], iso[2])
               /\ result[1] <= lastArg
               /\ lastArg < result[1] + 7
               /\ isocalendar(result[1]) = iso
        /\ lastOp = "name_to_timestamp" =>
               /\ result[1] = archive_name_for_week(iso[1], iso[2])
               /\ result[2] <= lastArg
               /\ lastArg < result[2] + 7
               /\ archive_name_for_week(isocalendar(result[2])[1],
                                        isocalendar(result[2])[2]) = result[1]

\* a December 31 that is in week 1 of the next ISO year: its shard is named
\* after that year and starts in December
C36_Witness ==
    /\ lastOp = "name_to_timestamp"
    /\ lastArg = Timestamp(2019, 12, 31)
    /\ result = <<archive_name_for_week(2020, 1), Timestamp(2019, 12, 30)>>

\* C37: a read of the dataframe property that follows another one, with no
\* add_reading and no flush between them, returns the table the first
\* returned and leaves the hot cache, its reload flag, the buffer and the
\* unsynced counter as the first left them, below capacity and at capacity.
C37_CurrentViewIdempotent ==
    [][(lastOp = "dataframe" /\ raised = "none" /\ lastOp' = "dataframe") =>
          /\ raised' = "none"
          /\ result' = result
          /\ dataframe' = dataframe
          /\ reload' = reload
          /\ queue' = queue
          /\ counter' = counter]_vars

(***************************************************************************)
(* Ingest during a read, checked under SpecInterleaved.                    *)
(***************************************************************************)
\* C38: a reading that add_reading stores between a read's look at the
\* unsynced slice and its reset of the counter is not lost: as long as it is
\* not in the hot cache it is still in the buffer, for a later read or the
\* buffer-full callback to fold in.
C38_IngestDuringReadNotLost ==
    \A i \in threads.missed :
        \/ added[i] \in Range(dataframe)
        \/ added[i] \in Range(queue)

====
